---- MODULE Spec2Model ----
(***************************************************************************)
(* A model of the exam-sheet generator: the App component's state and      *)
(* handlers (src/App.tsx), the generation service and its permissive JSON  *)
(* parser (src/services/geminiService.ts) and the page layout computed by  *)
(* ExamRenderer (src/components/ExamRenderer.tsx).                         *)
(*                                                                         *)
(* JavaScript objects are functions from property names to values; a       *)
(* property that is absent (undefined) is not in the DOMAIN.  Texts of the *)
(* AI response are sequences of tokens, each token standing for a fixed    *)
(* piece of text.                                                          *)
(***************************************************************************)
EXTENDS Integers, Sequences, FiniteSets, TLC

VARIABLES
    config,           \* App: GenerationConfig (useState)
    loading,          \* App: loading flag
    error,            \* App: error message or Null
    exam,             \* App: ExamPaper or Null
    isEditing,        \* App: edit mode flag
    addQuestionType,  \* App: type selected for "add question"
    storage,          \* localStorage: Null, or the item 'examGeniusConfig'  
    apiKey,           \* process.env.API_KEY is set (fixed by the build)
    genReq,           \* the generateExam call awaited by handleGenerate, or Null
    regens,           \* sequence of handleRegenerateQuestion calls awaiting their request
    reads,            \* sequence of FileReader reads started by handleFileUpload
    edits,            \* number of edits of the form and of the exam made so far
    text,             \* parser check: the response text handed to parseJSONSafe
    parsed,           \* parser check: what parseJSONSafe did with it
    view,             \* the sheets ExamRenderer shows, or Null without an exam
    isGeneratingPdf,  \* App: a PDF export is marked as running
    pdfMode,          \* the class pdf-mode is on the element exam-wrapper
    previewUrl,       \* App: the blob of the previewed document, or Null
    showPreviewModal, \* App: the preview modal is asked for
    html2pdf,         \* window.html2pdf is there (the library script has loaded)
    exports,          \* sequence of processPdf calls awaiting their document
    saveLog,          \* history: the last run of handleSaveConfig, or Null
    last              \* the handler that ran last, with what it saw and did

\* the state of the PDF export
pdfState == <<isGeneratingPdf, pdfMode, previewUrl, showPreviewModal, html2pdf, exports>>

vars == <<config, loading, error, exam, isEditing, addQuestionType, storage, apiKey,
          genReq, regens, reads, edits, text, parsed, view, pdfState, saveLog,
          last>>

-----------------------------------------------------------------------------
(* JavaScript values *)

\* null, for the state that holds an object or null
Null == [null |-> TRUE]

\* o.k is not undefined
Has(o, k) == k \in DOMAIN o

\* { ...a, ...b }
Spread(a, b) ==
    [k \in (DOMAIN a) \cup (DOMAIN b) |-> IF k \in DOMAIN b THEN b[k] ELSE a[k]]

\* o.k || 1 for a numeric property: 1 when it is absent or 0
OrOne(o, k) == IF Has(o, k) /\ o[k] # 0 THEN o[k] ELSE 1

Max2(a, b) == IF a >= b THEN a ELSE b

RECURSIVE SetMax(_)
\* Math.max(...S) over a finite non-empty set of integers
SetMax(S) ==
    LET x == CHOOSE y \in S : TRUE
    IN  IF S = {x} THEN x ELSE Max2(x, SetMax(S \ {x}))

\* s.filter(Keep), for a predicate given as a set of kept positions
SelectIdx(s, keep) ==
    LET F[i \in 0..Len(s)] ==
            IF i = 0 THEN <<>>
            ELSE IF i \in keep THEN Append(F[i - 1], s[i]) ELSE F[i - 1]
    IN  F[Len(s)]

-----------------------------------------------------------------------------
(* Response texts and parseJSONSafe (geminiService.ts 4-19).               *)
(*                                                                         *)
(* Tokens: "F" is the opening fence ```json, "T" a bare fence ```, "{" and *)
(* "}" the braces, "Q" the members of the answered object ("questions":    *)
(* [...] for an exam, the fields of a rewritten question), "1" the digit 1 *)
(* and "W" one whitespace character.  Over these tokens the JSON grammar   *)
(* admits exactly: a number 1, 11, ...; the object {} ; the object {Q};    *)
(* each with whitespace around it and inside the braces.                   *)

Tokens == {"F", "T", "{", "}", "Q", "1", "W"}

MaxTextLen == 5

Texts == UNION {[1..n -> Tokens] : n \in 0..MaxTextLen}

\* s.substring(a, b) on 0-based indices: the arguments are clamped and swapped
\* when a > b, as String.prototype.substring does
Substring(s, a, b) ==
    LET ca == IF a < 0 THEN 0 ELSE IF a > Len(s) THEN Len(s) ELSE a
        cb == IF b < 0 THEN 0 ELSE IF b > Len(s) THEN Len(s) ELSE b
        lo == IF ca <= cb THEN ca ELSE cb
        hi == IF ca <= cb THEN cb ELSE ca
    IN  SubSeq(s, lo + 1, hi)

\* the text without its leading and trailing whitespace
TrimW(s) ==
    LET nonW == {i \in 1..Len(s) : s[i] # "W"}
    IN  IF nonW = {} THEN <<>>
        ELSE SubSeq(s, CHOOSE i \in nonW : \A j \in nonW : i <= j,
                       CHOOSE i \in nonW : \A j \in nonW : i >= j)

RECURSIVE Ones(_)
\* the number written with n digits 1
Ones(n) == IF n = 0 THEN 0 ELSE 10 * Ones(n - 1) + 1

ParseFailure == [ok |-> FALSE]

\* JSON.parse: [ok, value]; ok = FALSE stands for the SyntaxError it throws
JSONparse(s) ==
    LET c == TrimW(s)
        inner == IF Len(c) >= 2 THEN TrimW(SubSeq(c, 2, Len(c) - 1)) ELSE <<>>
    IN  IF c # <<>> /\ \A i \in 1..Len(c) : c[i] = "1"
        THEN [ok |-> TRUE, value |-> [kind |-> "number", n |-> Ones(Len(c))]]
        ELSE IF Len(c) >= 2 /\ c[1] = "{" /\ c[Len(c)] = "}" /\ inner = <<>>
        THEN [ok |-> TRUE, value |-> [kind |-> "object"]]
        ELSE IF Len(c) >= 2 /\ c[1] = "{" /\ c[Len(c)] = "}" /\ inner = <<"Q">>
        THEN [ok |-> TRUE, value |-> [kind |-> "object", questions |-> TRUE]]
        ELSE ParseFailure

\* positions at which the three characters ``` begin: a bare fence, or the
\* start of an opening fence
IsFence(tok) == tok \in {"F", "T"}

\* text.match(/```json\s*([\s\S]*?)\s*```/): the leftmost opening fence that has
\* a fence after it, and match[1], the text up to the first such fence without
\* the whitespace around it.  [found, group]
FenceMatch(s) ==
    LET opens == {i \in 1..Len(s) :
                    s[i] = "F" /\ \E j \in (i + 1)..Len(s) : IsFence(s[j])}
    IN  IF opens = {} THEN [found |-> FALSE, group |-> <<>>]
        ELSE LET i == CHOOSE x \in opens : \A y \in opens : x <= y
                 j == CHOOSE x \in (i + 1)..Len(s) :
                        IsFence(s[x]) /\ \A y \in (i + 1)..(x - 1) : ~IsFence(s[y])
             IN  [found |-> TRUE, group |-> TrimW(SubSeq(s, i + 1, j - 1))]

\* text.indexOf(ch) and text.lastIndexOf(ch), 0-based, -1 when absent
IndexOf(s, ch) ==
    LET at == {i \in 1..Len(s) : s[i] = ch}
    IN  IF at = {} THEN -1 ELSE (CHOOSE i \in at : \A j \in at : i <= j) - 1

LastIndexOf(s, ch) ==
    LET at == {i \in 1..Len(s) : s[i] = ch}
    IN  IF at = {} THEN -1 ELSE (CHOOSE i \in at : \A j \in at : i >= j) - 1

\* parseJSONSafe: ok = FALSE stands for the error it throws
parseJSONSafe(s) ==
    LET raw == JSONparse(s)
        match == FenceMatch(s)
        start == IndexOf(s, "{")
        end == LastIndexOf(s, "}")
    IN  IF raw.ok THEN raw
        ELSE IF match.found /\ match.group # <<>> THEN JSONparse(match.group)
        ELSE IF start # -1 /\ end # -1 THEN JSONparse(Substring(s, start, end + 1))
        ELSE ParseFailure

-----------------------------------------------------------------------------
(* Types (types.ts) and the App's constants (App.tsx 7-22) *)

QuestionType ==
    {"MULTIPLE_CHOICE", "TRUE_FALSE", "SHORT_ANSWER", "LONG_ANSWER",
     "FILL_IN_THE_BLANK", "MATCHING"}

Difficulty == {"Easy", "Medium", "Hard"}

SourceType == {"TEXT", "URL", "FILE"}

INITIAL_COUNTS ==
    [MULTIPLE_CHOICE |-> 4, TRUE_FALSE |-> 3, FILL_IN_THE_BLANK |-> 3,
     MATCHING |-> 1, SHORT_ANSWER |-> 3, LONG_ANSWER |-> 1]

\* content is a text: a sequence of characters, "W" a whitespace character
INITIAL_CONFIG ==
    [sourceType |-> "TEXT", content |-> <<>>, difficulty |-> "Medium",
     questionCounts |-> INITIAL_COUNTS, pageCount |-> 1]

\* the largest total handleGenerate lets through
MAX_TOTAL_QUESTIONS == 40

\* The messages shown in the error banner; lang is the language of the literal
\* in the source ("fa" Persian, "en" English).
ERR_NO_CONTENT == [msg |-> "enter a text or a url", lang |-> "fa"]
ERR_NO_FILE == [msg |-> "upload a file", lang |-> "fa"]
ERR_NO_QUESTIONS == [msg |-> "give at least one question type a count", lang |-> "fa"]
ERR_TOO_MANY == [msg |-> "the total cannot exceed 40", lang |-> "fa"]
ERR_FALLBACK == [msg |-> "an error occurred", lang |-> "fa"]
ERR_FILE_TOO_LARGE == [msg |-> "the file must not exceed 10 MB", lang |-> "fa"]
MSG_API_KEY_MISSING == [msg |-> "API Key is missing", lang |-> "en"]
MSG_GENERATION_FAILED ==
    [msg |-> "Failed to generate exam. Check your input or API key.", lang |-> "en"]
MSG_NO_RESPONSE == [msg |-> "No response generated", lang |-> "en"]
MSG_PARSE_FAILED == [msg |-> "Failed to parse JSON response", lang |-> "en"]
MSG_REQUEST_FAILED == [msg |-> "request failed", lang |-> "en"]
MSG_TYPE_ERROR == [msg |-> "Cannot read properties of undefined", lang |-> "en"]

\* (Object.values(config.questionCounts) as number[]).reduce((a, b) => a + b, 0)
totalQuestions(cfg) ==
    LET c == cfg.questionCounts
    IN  c["MULTIPLE_CHOICE"] + c["TRUE_FALSE"] + c["FILL_IN_THE_BLANK"]
          + c["MATCHING"] + c["SHORT_ANSWER"] + c["LONG_ANSWER"]

-----------------------------------------------------------------------------
(* Exam papers *)

DEFAULT_LABELS == [school |-> "school:", name |-> "name:", page |-> "page:"]

DEFAULT_STYLE == [fontFamily |-> "Vazirmatn", fontSize |-> "medium", textAlign |-> "right"]

\* ExamRenderer's mount effect: labels and style are set when they are missing
mountEffect(ex) ==
    Spread([labels |-> DEFAULT_LABELS, style |-> DEFAULT_STYLE], ex)

\* The questions the AI's answers are made of: values of type Question.  Ids
\* are whatever integers the answer holds; two questions of an answer may
\* share one, and one may be below 1.
AiQuestions ==
    [a |-> [id |-> 1, type |-> "TRUE_FALSE", text |-> "t1"],
     b |-> [id |-> 2, type |-> "MULTIPLE_CHOICE", text |-> "t2", options |-> <<"o1", "o2">>],
     c |-> [id |-> 1, type |-> "SHORT_ANSWER", text |-> "t2"],
     d |-> [id |-> -2, type |-> "LONG_ANSWER", text |-> "t3"]]

\* The exam papers an answer can hold: no question, one question with an id
\* below 1, two with different ids, two with the same id
AiExams ==
    { [header |-> [title |-> "title"], questions |-> qs, evaluationTable |-> <<>>] :
        qs \in { <<>>, <<AiQuestions.d>>, <<AiQuestions.a, AiQuestions.b>>,
                 <<AiQuestions.a, AiQuestions.c>> } }

\* The response texts the generation request is answered with: no text, the
\* exam as raw JSON, in a fence, after a fence that holds no JSON, an object
\* without questions, a number, and a text that is no JSON
ResponseTexts ==
    { <<>>, <<"{", "Q", "}">>, <<"F", "W", "{", "Q", "}", "W", "T">>,
      <<"F", "Q", "T", "{", "Q", "}">>, <<"Q", "{", "Q", "}", "Q">>,
      <<"{", "}">>, <<"1">>, <<"Q">> }

\* What ai.models.generateContent settles with: it rejects, or it resolves with
\* a response whose text is txt; when the text is JSON for an object with
\* questions, that object is paper
Responses ==
    {[kind |-> "rejected"]}
      \cup {[kind |-> "text", text |-> txt, paper |-> e] :
              txt \in ResponseTexts, e \in AiExams}

-----------------------------------------------------------------------------
(* The layout ExamRenderer computes from the exam (ExamRenderer.tsx 14-21,  *)
(* 209-224, 313-320, 412-444)                                               *)

\* q.page || 1
PageOf(q) == OrOne(q, "page")

\* an order of the sections with the first two exchanged
TYPE_ORDER_Exchanged ==
    <<"MATCHING", "TRUE_FALSE", "MULTIPLE_CHOICE", "FILL_IN_THE_BLANK",
      "SHORT_ANSWER", "LONG_ANSWER">>

TYPE_ORDER ==
    <<"TRUE_FALSE", "MATCHING", "MULTIPLE_CHOICE", "FILL_IN_THE_BLANK",
      "SHORT_ANSWER", "LONG_ANSWER">>

\* the keys of pages: the page numbers that hold a question (210-218)
pageKeys(ex) == {PageOf(ex.questions[i]) : i \in 1..Len(ex.questions)}

\* pages[pageNum] || [] : the questions of a page, in the order of exam.questions
pageQuestions(ex, pageNum) ==
    SelectIdx(ex.questions,
              {i \in 1..Len(ex.questions) : PageOf(ex.questions[i]) = pageNum})

\* the number of pages when only the configured count is taken
totalRenderPagesConfigured(ex) == OrOne(ex, "pageCount")

maxPageWithQuestions(ex) == SetMax({0} \cup pageKeys(ex))

totalRenderPages(ex) == Max2(OrOne(ex, "pageCount"), maxPageWithQuestions(ex))

\* Array.from({ length: totalRenderPages }, (_, i) => i + 1)
pageNumbers(ex) == [i \in 1..totalRenderPages(ex) |-> i]

\* groupedQuestions[type] of a page (315-320); empty when the key is missing
groupedQuestions(ex, pageNum, type) ==
    LET pq == pageQuestions(ex, pageNum)
    IN  SelectIdx(pq, {i \in 1..Len(pq) : pq[i].type = type})

\* sections in the order in which their types first occur on the page
sectionsOfFirstSeen(ex, pageNum) ==
    LET pq == pageQuestions(ex, pageNum)
        kept == SelectIdx(pq, {i \in 1..Len(pq) : \A j \in 1..(i - 1) : pq[j].type # pq[i].type})
    IN  [k \in 1..Len(kept) |->
           [type |-> kept[k].type,
            questions |-> groupedQuestions(ex, pageNum, kept[k].type)]]

\* the sections TYPE_ORDER.map renders on a page (419-421): those with a question
sectionsOf(ex, pageNum) ==
    LET shown == {k \in 1..Len(TYPE_ORDER) :
                    groupedQuestions(ex, pageNum, TYPE_ORDER[k]) # <<>>}
        kept == SelectIdx(TYPE_ORDER, shown)
    IN  [k \in 1..Len(kept) |->
           [type |-> kept[k], questions |-> groupedQuestions(ex, pageNum, kept[k])]]

\* sheets that never show the placeholder
sheetsNoPlaceholder(ex, editing) ==
    LET pn == pageNumbers(ex)
    IN  [k \in 1..Len(pn) |->
           [page |-> pn[k], placeholder |-> FALSE, sections |-> sectionsOf(ex, pn[k])]]

\* the sheets, in order: the page number, whether the empty-page placeholder
\* is rendered (413) with its caption (415), and the sections
sheets(ex, editing) ==
    LET pn == pageNumbers(ex)
    IN  [k \in 1..Len(pn) |->
           Spread([page |-> pn[k],
                   placeholder |-> Len(pageQuestions(ex, pn[k])) = 0,
                   sections |-> sectionsOf(ex, pn[k])],
                  IF Len(pageQuestions(ex, pn[k])) = 0
                  THEN [caption |-> IF editing THEN "empty page (move questions here)"
                                     ELSE ""]
                  ELSE <<>>)]

\* what is on screen: the sheets of the exam, rendered again after every change
\* of the state (App.tsx 576, 648-656)
render(ex, editing) == IF ex = Null THEN Null ELSE sheets(ex, editing)

RECURSIVE questionsIn(_, _)
\* the questions rendered in the first j sections of a sheet
questionsIn(secs, j) ==
    IF j = 0 THEN 0 ELSE questionsIn(secs, j - 1) + Len(secs[j].questions)

\* a counter that is set back to 0 at the top of every sheet
indexBeforeRestarting(v, p) == 0

RECURSIVE indexBefore(_, _)
\* globalQuestionIndex when the rendering reaches sheet p: it starts at 0 (224)
\* and is raised once for every question rendered before (443)
indexBefore(v, p) ==
    IF p = 1 THEN 0
    ELSE indexBefore(v, p - 1) + questionsIn(v[p - 1].sections, Len(v[p - 1].sections))

\* {globalQuestionIndex} (475): the number shown beside the question at place
\* m of section k of sheet p
questionNumber(v, p, k, m) == indexBefore(v, p) + questionsIn(v[p].sections, k - 1) + m

-----------------------------------------------------------------------------
(* generateExam (geminiService.ts 21-185) *)

\* a try block that returns the paper of the answer as it is
generateExamTryAsAnswered(cfg, r) ==
    IF r.kind = "rejected" THEN [ok |-> FALSE, message |-> MSG_REQUEST_FAILED]
    ELSE IF r.text = <<>> THEN [ok |-> FALSE, message |-> MSG_NO_RESPONSE]
    ELSE LET p == parseJSONSafe(r.text)
         IN  IF ~p.ok THEN [ok |-> FALSE, message |-> MSG_PARSE_FAILED]
             ELSE IF ~Has(p.value, "questions")
             THEN [ok |-> FALSE, message |-> MSG_TYPE_ERROR]
             ELSE [ok |-> TRUE, result |-> r.paper]

\* the body of the try block (98-179): [ok, result] or [ok, message] for the
\* error thrown inside it
generateExamTry(cfg, r) ==
    IF r.kind = "rejected" THEN [ok |-> FALSE, message |-> MSG_REQUEST_FAILED]
    ELSE IF r.text = <<>> THEN [ok |-> FALSE, message |-> MSG_NO_RESPONSE]
    ELSE LET p == parseJSONSafe(r.text)
         IN  IF ~p.ok THEN [ok |-> FALSE, message |-> MSG_PARSE_FAILED]
             ELSE IF ~Has(p.value, "questions")
             THEN [ok |-> FALSE, message |-> MSG_TYPE_ERROR]
             ELSE LET qs == r.paper.questions
                  IN  [ok |-> TRUE,
                       result |->
                         Spread(r.paper,
                                [questions |->
                                   [i \in 1..Len(qs) |-> Spread(qs[i], [page |-> 1])],
                                 pageCount |-> OrOne(cfg, "pageCount")])]

\* a catch block that throws the caught error again
generateExamRethrow(attempt) == attempt

\* catch (error) { throw new Error("Failed to generate exam. ...") }
generateExamCatch(attempt) ==
    IF attempt.ok THEN attempt ELSE [ok |-> FALSE, message |-> MSG_GENERATION_FAILED]

generateExam(cfg, key, r) ==
    IF ~key THEN [ok |-> FALSE, message |-> MSG_API_KEY_MISSING]
    ELSE generateExamCatch(generateExamTry(cfg, r))

\* why the request of generateExam gave no exam, for the record in last
failureCause(key, r) ==
    IF ~key THEN "apiKey"
    ELSE IF r.kind = "rejected" THEN "request"
    ELSE IF r.text = <<>> THEN "empty"
    ELSE IF ~parseJSONSafe(r.text).ok THEN "parse"
    ELSE IF ~Has(parseJSONSafe(r.text).value, "questions") THEN "noQuestions"
    ELSE "none"

-----------------------------------------------------------------------------
(* The request generateExam sends (geminiService.ts 50-168) *)

\* tools (51, 54-55): the search tool for an address
toolsOf(cfg) == IF cfg.sourceType = "URL" THEN <<[googleSearch |-> <<>>]>> ELSE <<>>

\* a request that always carries the response schema
useSchemaAlways(cfg) == TRUE

\* useSchema (52, 73, 91)
useSchemaOf(cfg) == cfg.sourceType # "URL"

\* contents (50-96): the prompt with the address, the file inline followed by
\* a prompt, or the prompt with the text
contentsOf(cfg) ==
    IF cfg.sourceType = "URL" THEN <<[text |-> "Analyze content at", of |-> cfg.content]>>
    ELSE IF cfg.sourceType = "FILE" /\ Has(cfg, "fileData")
    THEN <<[inlineData |-> [mimeType |-> cfg.fileData.mimeType,
                            data |-> cfg.fileData.data]],
           [text |-> "Analyze the provided document"]>>
    ELSE <<[text |-> "Content", of |-> cfg.content]>>

\* requestConfig (101-162)
requestConfigOf(cfg) ==
    Spread(Spread([systemInstruction |-> "systemPrompt"],
                  IF Len(toolsOf(cfg)) > 0 THEN [tools |-> toolsOf(cfg)] ELSE <<>>),
           IF useSchemaOf(cfg)
           THEN [responseMimeType |-> "application/json", responseSchema |-> "ExamPaper"]
           ELSE <<>>)

\* the argument of ai.models.generateContent (164-168)
requestOf(cfg) == [contents |-> contentsOf(cfg), config |-> requestConfigOf(cfg)]

\* what generateExam sends up to its await: nothing without an API key (22-24)
sentBy(cfg, key) == IF key THEN requestOf(cfg) ELSE Null

-----------------------------------------------------------------------------
(* handleGenerate (App.tsx 47-80) *)

\* e.message || fallback
messageOr(m, fallback) == IF m.msg = "" THEN fallback ELSE m

\* validate without the upper limit on the total
validateNoUpperLimit(cfg) ==
    IF cfg.sourceType # "FILE" /\ TrimW(cfg.content) = <<>> THEN ERR_NO_CONTENT
    ELSE IF cfg.sourceType = "FILE" /\ ~Has(cfg, "fileData") THEN ERR_NO_FILE
    ELSE IF totalQuestions(cfg) = 0 THEN ERR_NO_QUESTIONS
    ELSE Null

\* The checks before the request (48-65): the message of the check that
\* fails, or Null when the configuration passes them all
validate(cfg) ==
    IF cfg.sourceType # "FILE" /\ TrimW(cfg.content) = <<>> THEN ERR_NO_CONTENT
    ELSE IF cfg.sourceType = "FILE" /\ ~Has(cfg, "fileData") THEN ERR_NO_FILE
    ELSE IF totalQuestions(cfg) = 0 THEN ERR_NO_QUESTIONS
    ELSE IF totalQuestions(cfg) > MAX_TOTAL_QUESTIONS THEN ERR_TOO_MANY
    ELSE Null

\* history: the regenerations that are pending when the exam is cleared are
\* marked as started on an exam that is gone
outlived(rs) ==
    IF rs = <<>> THEN <<>>
    ELSE [i \in 1..Len(rs) |-> Spread(rs[i], [outlived |-> TRUE])]

\* a click that leaves the exam of the previous generation in place
handleGenerateKeepsExam ==
    /\ ~loading
    /\ IF validate(config) # Null
       THEN /\ error' = validate(config)
            /\ last' = [op |-> "handleGenerate", outcome |-> "rejected"]
            /\ UNCHANGED <<loading, exam, isEditing, genReq, pdfMode, regens>>
       ELSE /\ loading' = TRUE
            /\ error' = Null
            /\ exam' = exam
            /\ isEditing' = FALSE
            /\ genReq' = [cfg |-> config, request |-> sentBy(config, apiKey)]
            /\ regens' = outlived(regens)
            /\ last' = [op |-> "handleGenerate", outcome |-> "started"]
            /\ pdfMode' = pdfMode
    /\ UNCHANGED <<isGeneratingPdf, previewUrl, showPreviewModal, html2pdf, exports>>
    /\ UNCHANGED <<saveLog, config, addQuestionType, storage, apiKey, reads, edits,
                   text, parsed>>
    /\ view' = render(exam', isEditing')

\* The click on the generate button, which is disabled while loading (551)
handleGenerate ==
    /\ ~loading
    /\ IF validate(config) # Null
       THEN /\ error' = validate(config)
            /\ last' = [op |-> "handleGenerate", outcome |-> "rejected"]
            /\ UNCHANGED <<loading, exam, isEditing, genReq, pdfMode, regens>>
       ELSE /\ loading' = TRUE
            /\ error' = Null
            /\ exam' = Null
            /\ isEditing' = FALSE
            /\ genReq' = [cfg |-> config, request |-> sentBy(config, apiKey)]
            /\ regens' = outlived(regens)
            /\ last' = [op |-> "handleGenerate", outcome |-> "started"]
            /\ pdfMode' = FALSE
    /\ UNCHANGED <<isGeneratingPdf, previewUrl, showPreviewModal, html2pdf, exports>>
    /\ UNCHANGED <<saveLog, config, addQuestionType, storage, apiKey, reads, edits,
                   text, parsed>>
    /\ view' = render(exam', isEditing')

\* The awaited generateExam settles (73-79); the renderer mounts on an exam that
\* replaces null, and its effect runs
generateSettled ==
    /\ genReq # Null
    /\ \E r \in Responses :
         LET out == generateExam(genReq.cfg, apiKey, r)
         IN  /\ IF out.ok
                THEN /\ exam' = IF exam = Null THEN mountEffect(out.result)
                                ELSE out.result
                     /\ error' = error
                ELSE /\ error' = messageOr(out.message, ERR_FALLBACK)
                     /\ exam' = exam
             /\ last' = [op |-> "generateSettled",
                         outcome |-> IF out.ok THEN "success" ELSE "failure",
                         cause |-> failureCause(apiKey, r)]
    /\ loading' = FALSE
    /\ genReq' = Null
    /\ UNCHANGED <<pdfState, saveLog, config, isEditing, addQuestionType, storage, apiKey, regens,
                   reads, edits, text, parsed>>
    /\ view' = render(exam', isEditing')

-----------------------------------------------------------------------------
(* Configuration edits (App.tsx 263-271, 396-408, 421, 485, 527) *)

MaxConfigEdits == 2

\* updateCount(type, delta), from the - and + buttons
updateCount ==
    /\ edits < MaxConfigEdits
    /\ \E type \in QuestionType, delta \in {-1, 1} :
         config' = [config EXCEPT
                      !.questionCounts[type] = Max2(0, @ + delta)]
    /\ edits' = edits + 1
    /\ last' = [op |-> "updateCount"]
    /\ UNCHANGED <<pdfState, saveLog, loading, error, exam, isEditing, addQuestionType, storage, apiKey,
                   genReq, regens, reads, text, parsed>>
    /\ view' = render(exam', isEditing')

\* typing in the text area or the address field (421, 431)
editContent ==
    /\ edits < MaxConfigEdits
    /\ \E c \in {<<>>, <<"W">>, <<"a">>} \ {config.content} :
         config' = Spread(config, [content |-> c])
    /\ edits' = edits + 1
    /\ last' = [op |-> "editContent"]
    /\ UNCHANGED <<pdfState, saveLog, loading, error, exam, isEditing, addQuestionType, storage, apiKey,
                   genReq, regens, reads, text, parsed>>
    /\ view' = render(exam', isEditing')

\* setIsEditing(!isEditing), in the toolbar shown with an exam (577-585)
toggleEditing ==
    /\ exam # Null
    /\ isEditing' = ~isEditing
    /\ last' = [op |-> "toggleEditing"]
    /\ UNCHANGED <<pdfState, saveLog, config, loading, error, exam, addQuestionType, storage, apiKey,
                   genReq, regens, reads, edits, text, parsed>>
    /\ view' = render(exam', isEditing')

-----------------------------------------------------------------------------
(* The rest of the form: source, difficulty, page count, file upload        *)
(* (App.tsx 236-261, 396-408, 485, 527)                                     *)

\* the source tabs (396, 402, 408)
setSourceType ==
    /\ edits < MaxConfigEdits
    /\ \E st \in SourceType \ {config.sourceType} :
         config' = Spread(config, [sourceType |-> st])
    /\ edits' = edits + 1
    /\ last' = [op |-> "setSourceType"]
    /\ UNCHANGED <<pdfState, saveLog, loading, error, exam, isEditing, addQuestionType, storage,
                   apiKey, genReq, regens, reads, text, parsed>>
    /\ view' = render(exam', isEditing')

\* the difficulty buttons (485)
setDifficulty ==
    /\ edits < MaxConfigEdits
    /\ \E level \in Difficulty \ {config.difficulty} :
         config' = Spread(config, [difficulty |-> level])
    /\ edits' = edits + 1
    /\ last' = [op |-> "setDifficulty"]
    /\ UNCHANGED <<pdfState, saveLog, loading, error, exam, isEditing, addQuestionType, storage,
                   apiKey, genReq, regens, reads, text, parsed>>
    /\ view' = render(exam', isEditing')

DigitChars == <<"0", "1", "2", "3", "4", "5", "6", "7", "8", "9">>

\* the value of a digit character
digitValue(c) == CHOOSE d \in 0..9 : DigitChars[d + 1] = c

isDigit(c) == \E d \in 0..9 : DigitChars[d + 1] = c

RECURSIVE digitsValue(_)
\* the number a sequence of digits writes
digitsValue(ds) ==
    IF ds = <<>> THEN 0
    ELSE 10 * digitsValue(SubSeq(ds, 1, Len(ds) - 1)) + digitValue(ds[Len(ds)])

\* parseInt(s): [nan |-> TRUE], or the integer written by an optional sign and
\* the digits that follow it, up to the first other character
parseInt(s) ==
    LET neg == s # <<>> /\ s[1] = "-"
        body == IF s # <<>> /\ s[1] \in {"-", "+"} THEN Tail(s) ELSE s
        stop == IF \E i \in 1..Len(body) : ~isDigit(body[i])
                THEN CHOOSE i \in 1..Len(body) :
                       /\ ~isDigit(body[i])
                       /\ \A j \in 1..(i - 1) : isDigit(body[j])
                ELSE Len(body) + 1
        digits == SubSeq(body, 1, stop - 1)
    IN  IF digits = <<>> THEN [nan |-> TRUE]
        ELSE [nan |-> FALSE,
              n |-> IF neg THEN 0 - digitsValue(digits) ELSE digitsValue(digits)]

\* parseInt(e.target.value) || 1
pageCountOf(s) ==
    IF parseInt(s).nan \/ parseInt(s).n = 0 THEN 1 ELSE parseInt(s).n

\* what is typed in the page-count field
PageCountInputs ==
    { <<>>, <<"0">>, <<"3">>, <<"-", "2">>, <<"2", ".", "7">>, <<"1", "2">> }

\* the page-count field (527)
setPageCount ==
    /\ edits < MaxConfigEdits
    /\ \E s \in PageCountInputs :
         config' = Spread(config, [pageCount |-> pageCountOf(s)])
    /\ edits' = edits + 1
    /\ last' = [op |-> "setPageCount"]
    /\ UNCHANGED <<pdfState, saveLog, loading, error, exam, isEditing, addQuestionType, storage,
                   apiKey, genReq, regens, reads, text, parsed>>
    /\ view' = render(exam', isEditing')

MAX_FILE_SIZE == 10 * 1024 * 1024

\* the files the user picks: of one byte, of the largest size accepted, and
\* one byte above it
Files ==
    { [name |-> "f", type |-> "application/pdf", size |-> n] :
        n \in {1, MAX_FILE_SIZE, MAX_FILE_SIZE + 1} }

\* reader.result of readAsDataURL, as its parts between the commas
dataURL(file) == <<"data:" \o file.type \o ";base64", "base64 of " \o file.name>>

\* a size check that turns the largest size away as well
tooLargeFromLimit(file) == file.size >= MAX_FILE_SIZE

\* file.size > 10 * 1024 * 1024 (240)
tooLarge(file) == file.size > MAX_FILE_SIZE

\* handleFileUpload up to readAsDataURL (236-260), from the file input shown
\* for the FILE source (436-443); the callback keeps the config of this render
handleFileUpload ==
    /\ config.sourceType = "FILE"
    /\ edits < MaxConfigEdits
    /\ \E file \in Files :
         IF tooLarge(file)
         THEN /\ error' = ERR_FILE_TOO_LARGE
              /\ reads' = reads
              /\ last' = [op |-> "handleFileUpload", outcome |-> "rejected",
                          file |-> file]
         ELSE /\ error' = error
              /\ reads' = Append(reads, [file |-> file, config |-> config])
              /\ last' = [op |-> "handleFileUpload", outcome |-> "reading",
                          file |-> file]
    /\ edits' = edits + 1
    /\ UNCHANGED <<pdfState, saveLog, config, loading, exam, isEditing, addQuestionType, storage,
                   apiKey, genReq, regens, text, parsed>>
    /\ view' = render(exam', isEditing')

\* reader.onloadend (246-258)
fileRead ==
    /\ \E n \in 1..Len(reads) :
         LET base64Data == dataURL(reads[n].file)[2]
         IN  /\ config' = Spread(reads[n].config,
                                 [fileData |-> [mimeType |-> reads[n].file.type,
                                                data |-> base64Data],
                                  content |-> <<"a">>])
             /\ reads' = SelectIdx(reads, (1..Len(reads)) \ {n})
             /\ last' = [op |-> "onloadend", file |-> reads[n].file]
    /\ error' = Null
    /\ UNCHANGED <<pdfState, saveLog, loading, exam, isEditing, addQuestionType, storage, apiKey,
                   genReq, regens, edits, text, parsed>>
    /\ view' = render(exam', isEditing')

-----------------------------------------------------------------------------
(* Saving and loading the configuration (App.tsx 273-297).  The stored item *)
(* is the JSON text of the config: its members in order, a number written   *)
(* in digits, a property that is undefined left out.                        *)

RECURSIVE digitsOf(_)
\* the digits of a natural number
digitsOf(n) ==
    IF n < 10 THEN <<DigitChars[n + 1]>>
    ELSE digitsOf(n \div 10) \o <<DigitChars[(n % 10) + 1]>>

\* a number as JSON.stringify writes it
jsonNumber(n) ==
    [t |-> "number", digits |-> IF n < 0 THEN <<"-">> \o digitsOf(0 - n) ELSE digitsOf(n)]

jsonString(str) == [t |-> "string", s |-> str]

\* the order of the types in the object literal of INITIAL_COUNTS
COUNT_KEYS ==
    <<"MULTIPLE_CHOICE", "TRUE_FALSE", "FILL_IN_THE_BLANK", "MATCHING",
      "SHORT_ANSWER", "LONG_ANSWER">>

\* JSON.stringify(config)
JSONstringify(cfg) ==
    <<[key |-> "sourceType", value |-> jsonString(cfg.sourceType)],
      [key |-> "content", value |-> jsonString(cfg.content)],
      [key |-> "difficulty", value |-> jsonString(cfg.difficulty)],
      [key |-> "questionCounts",
       value |-> [t |-> "object",
                  members |-> [k \in 1..Len(COUNT_KEYS) |->
                                 [key |-> COUNT_KEYS[k],
                                  value |-> jsonNumber(cfg.questionCounts[COUNT_KEYS[k]])]]]]>>
      \o (IF Has(cfg, "pageCount")
          THEN <<[key |-> "pageCount", value |-> jsonNumber(cfg.pageCount)]>>
          ELSE <<>>)
      \o (IF Has(cfg, "fileData")
          THEN <<[key |-> "fileData",
                  value |-> [t |-> "object",
                             members |-> <<[key |-> "mimeType",
                                            value |-> jsonString(cfg.fileData.mimeType)],
                                           [key |-> "data",
                                            value |-> jsonString(cfg.fileData.data)]>>]]>>
          ELSE <<>>)

RECURSIVE jsonValue(_)
\* the value JSON.parse reads from a written value
jsonValue(v) ==
    CASE v.t = "string" -> v.s
      [] v.t = "number" ->
           IF v.digits[1] = "-" THEN 0 - digitsValue(Tail(v.digits))
           ELSE digitsValue(v.digits)
      [] v.t = "object" ->
           [k \in {v.members[i].key : i \in 1..Len(v.members)} |->
              jsonValue(v.members[CHOOSE i \in 1..Len(v.members) :
                                    v.members[i].key = k].value)]

\* JSON.parse(saved)
JSONparseSaved(saved) == jsonValue([t |-> "object", members |-> saved])

\* a merge in which the defaults win over the stored values
loadedConfigDefaultsWin(parsedConfig) == Spread(parsedConfig, INITIAL_CONFIG)

\* { ...INITIAL_CONFIG, ...parsed } (288)
loadedConfig(parsedConfig) == Spread(INITIAL_CONFIG, parsedConfig)

\* handleSaveConfig: localStorage.setItem stores the text, or throws (quota
\* exceeded, storage not available) and the catch block reports it
handleSaveConfig ==
    /\ \E stored \in BOOLEAN :
         /\ storage' = IF stored THEN [item |-> JSONstringify(config)] ELSE storage
         /\ saveLog' = [config |-> config, ok |-> stored]
         /\ last' = [op |-> "handleSaveConfig",
                     alert |-> IF stored THEN "saved" ELSE "save failed"]
    /\ UNCHANGED <<pdfState, config, loading, error, exam, isEditing, addQuestionType,
                   apiKey, genReq, regens, reads, edits, text, parsed>>
    /\ view' = render(exam', isEditing')

\* handleLoadConfig
handleLoadConfig ==
    /\ IF storage # Null
       THEN /\ config' = loadedConfig(JSONparseSaved(storage.item))
            /\ last' = [op |-> "handleLoadConfig", alert |-> "restored", before |-> config]
       ELSE /\ config' = config
            /\ last' = [op |-> "handleLoadConfig", alert |-> "nothing saved",
                        before |-> config]
    /\ UNCHANGED <<pdfState, saveLog, loading, error, exam, isEditing, addQuestionType, storage,
                   apiKey, genReq, regens, reads, edits, text, parsed>>
    /\ view' = render(exam', isEditing')

-----------------------------------------------------------------------------
(* Editing the exam: ExamRenderer.tsx 158-191 and App.tsx 165-208.  Each    *)
(* handler computes the next exam from the exam of the current render.      *)

\* positions of the questions whose id is id
withId(ex, id) == {i \in 1..Len(ex.questions) : ex.questions[i].id = id}

\* updateQuestion(id, field, value)
updateQuestion(ex, id, field, value) ==
    Spread(ex,
           [questions |->
              [i \in 1..Len(ex.questions) |->
                 IF ex.questions[i].id = id
                 THEN Spread(ex.questions[i], [x \in {field} |-> value])
                 ELSE ex.questions[i]]])

\* the move without the floor of Math.max(1, ...)
newPageNoFloor(q, direction) ==
    IF direction = "next" THEN PageOf(q) + 1 ELSE PageOf(q) - 1

\* the page moveQuestionPage gives a question (170)
newPage(q, direction) ==
    IF direction = "next" THEN PageOf(q) + 1 ELSE Max2(1, PageOf(q) - 1)

\* a move that leaves the page count as it is
moveQuestionPageKeepsCount(ex, id, direction) ==
    Spread(ex,
           [questions |->
              [i \in 1..Len(ex.questions) |->
                 IF ex.questions[i].id = id
                 THEN Spread(ex.questions[i], [page |-> newPage(ex.questions[i], direction)])
                 ELSE ex.questions[i]]])

\* moveQuestionPage(id, direction)
moveQuestionPage(ex, id, direction) ==
    LET qs == ex.questions
        newMaxPage ==
            SetMax({OrOne(ex, "pageCount")}
                     \cup {newPage(qs[i], direction) : i \in withId(ex, id)})
    IN  Spread(ex,
               [questions |->
                  [i \in 1..Len(qs) |->
                     IF qs[i].id = id
                     THEN Spread(qs[i], [page |-> newPage(qs[i], direction)])
                     ELSE qs[i]],
                pageCount |-> newMaxPage])

\* a delete that also drops the pages left empty at the end
deleteQuestionTrimsPages(ex, id) ==
    LET qs == SelectIdx(ex.questions,
                        {i \in 1..Len(ex.questions) : ex.questions[i].id # id})
    IN  Spread(ex, [questions |-> qs,
                    pageCount |-> SetMax({1} \cup {PageOf(qs[i]) : i \in 1..Len(qs)})])

\* deleteQuestion(id)
deleteQuestion(ex, id) ==
    Spread(ex,
           [questions |->
              SelectIdx(ex.questions,
                        {i \in 1..Len(ex.questions) : ex.questions[i].id # id})])

\* a new id taken from the number of questions
newIdByCount(ex) == Len(ex.questions) + 1

\* newId (167)
newIdOf(ex) ==
    SetMax({0} \cup {ex.questions[i].id : i \in 1..Len(ex.questions)}) + 1

\* the question handleAddQuestion builds (167-196)
newQuestion(ex, type) ==
    LET qs == ex.questions
        newId == newIdOf(ex)
        lastPage == IF Len(qs) > 0 THEN SetMax({PageOf(qs[i]) : i \in 1..Len(qs)})
                    ELSE 1
        base == [id |-> newId, type |-> type, text |-> "new question...",
                 learningObjective |-> "new objective", difficulty |-> "Medium",
                 page |-> lastPage]
    IN  CASE type = "MULTIPLE_CHOICE" ->
               Spread(base, [options |-> <<"option 1", "option 2", "option 3", "option 4">>])
          [] type = "MATCHING" ->
               Spread(base, [pairs |-> <<[left |-> "item a", right |-> "option 1"],
                                         [left |-> "item b", right |-> "option 2"]>>,
                             text |-> "connect the related items."])
          [] type = "TRUE_FALSE" -> Spread(base, [text |-> "this statement is true."])
          [] type = "FILL_IN_THE_BLANK" ->
               Spread(base, [text |-> "........ is the capital."])
          [] OTHER -> base

\* handleAddQuestion's new exam (198-201)
addQuestion(ex, type) ==
    Spread(ex, [questions |-> Append(ex.questions, newQuestion(ex, type))])

\* updatePageCount(delta)'s new exam (206-207)
withPageCount(ex, delta) ==
    Spread(ex, [pageCount |-> Max2(1, OrOne(ex, "pageCount") + delta)])

MaxExamEdits == 3

\* the edit controls of a question are rendered in edit mode (447)
canEditQuestions == exam # Null /\ isEditing /\ edits < MaxExamEdits

\* the blur of a question's text field (484)
editQuestionText ==
    /\ canEditQuestions
    /\ \E i \in 1..Len(exam.questions) :
         exam' = updateQuestion(exam, exam.questions[i].id, "text", "edited")
    /\ edits' = edits + 1
    /\ last' = [op |-> "updateQuestion"]
    /\ UNCHANGED <<pdfState, saveLog, config, loading, error, isEditing, addQuestionType, storage, apiKey,
                   genReq, regens, reads, text, parsed>>
    /\ view' = render(exam', isEditing')

\* the page buttons of a question (453-458)
movePage ==
    /\ canEditQuestions
    /\ \E i \in 1..Len(exam.questions), direction \in {"next", "prev"} :
         /\ exam' = moveQuestionPage(exam, exam.questions[i].id, direction)
         /\ last' = [op |-> "moveQuestionPage", id |-> exam.questions[i].id,
                     direction |-> direction]
    /\ edits' = edits + 1
    /\ UNCHANGED <<pdfState, saveLog, config, loading, error, isEditing, addQuestionType, storage, apiKey,
                   genReq, regens, reads, text, parsed>>
    /\ view' = render(exam', isEditing')

\* history: the pending regenerations of the id that is deleted are marked
deletedMeanwhile(rs, id) ==
    IF rs = <<>> THEN <<>>
    ELSE [i \in 1..Len(rs) |->
            IF rs[i].qId = id THEN Spread(rs[i], [deleted |-> TRUE]) ELSE rs[i]]

\* the delete button of a question (450)
delete ==
    /\ canEditQuestions
    /\ \E i \in 1..Len(exam.questions) :
         /\ exam' = deleteQuestion(exam, exam.questions[i].id)
         /\ regens' = deletedMeanwhile(regens, exam.questions[i].id)
         /\ last' = [op |-> "deleteQuestion", id |-> exam.questions[i].id,
                     page |-> PageOf(exam.questions[i])]
    /\ edits' = edits + 1
    /\ UNCHANGED <<pdfState, saveLog, config, loading, error, isEditing, addQuestionType, storage, apiKey,
                   genReq, reads, text, parsed>>
    /\ view' = render(exam', isEditing')

\* the select beside the add button (601-609)
setAddQuestionType ==
    /\ canEditQuestions
    /\ \E type \in QuestionType \ {addQuestionType} : addQuestionType' = type
    /\ edits' = edits + 1
    /\ last' = [op |-> "setAddQuestionType"]
    /\ UNCHANGED <<pdfState, saveLog, config, loading, error, exam, isEditing, storage, apiKey,
                   genReq, regens, reads, text, parsed>>
    /\ view' = render(exam', isEditing')

\* the add button, rendered in edit mode (599-616)
handleAddQuestion ==
    /\ canEditQuestions
    /\ exam' = addQuestion(exam, addQuestionType)
    /\ edits' = edits + 1
    /\ last' = [op |-> "handleAddQuestion"]
    /\ UNCHANGED <<pdfState, saveLog, config, loading, error, isEditing, addQuestionType, storage, apiKey,
                   genReq, regens, reads, text, parsed>>
    /\ view' = render(exam', isEditing')

\* the page buttons of the toolbar (588-595)
updatePageCount ==
    /\ exam # Null
    /\ edits < MaxExamEdits
    /\ \E delta \in {1, -1} :
         /\ exam' = withPageCount(exam, delta)
         /\ last' = [op |-> "updatePageCount", delta |-> delta]
    /\ edits' = edits + 1
    /\ UNCHANGED <<pdfState, saveLog, config, loading, error, isEditing, addQuestionType, storage, apiKey,
                   genReq, regens, reads, text, parsed>>
    /\ view' = render(exam', isEditing')

-----------------------------------------------------------------------------
(* Regenerating one question: regenerateQuestion (geminiService.ts 187-219) *)
(* and handleRegenerateQuestion (App.tsx 210-234)                           *)

PLACEHOLDER == "rewriting..."

\* The fields a rewritten question is answered with: the prompt asks for text,
\* learningObjective, options "(if MC)" and pairs "(if Matching)", and the
\* request sets no schema, so the answer holds the fields the AI chose, those
\* of a whole question at most
RegenDatas ==
    { [text |-> "ai", learningObjective |-> "lo"],
      [text |-> "ai", options |-> <<"o3", "o4">>, id |-> 7, page |-> 5,
       difficulty |-> "Easy"] }

\* What the request of regenerateQuestion settles with: it rejects, or it
\* resolves with a text; in the text "Q" stands for the fields of data, and a
\* text without them holds no data
RegenResponses ==
    {[kind |-> "rejected"]}
      \cup {[kind |-> "text", text |-> <<"{", "Q", "}">>, data |-> d] : d \in RegenDatas}
      \cup {[kind |-> "text", text |-> txt, data |-> <<>>] : txt \in {<<"{", "}">>, <<"Q">>}}

\* [ok, result], or [ok, message] for the error it rejects with
regenerateQuestion(currentQuestion, newDifficulty, key, r) ==
    IF ~key THEN [ok |-> FALSE, message |-> MSG_API_KEY_MISSING]
    ELSE IF r.kind = "rejected" THEN [ok |-> FALSE, message |-> MSG_REQUEST_FAILED]
    ELSE LET p == parseJSONSafe(r.text)
         IN  IF ~p.ok THEN [ok |-> FALSE, message |-> MSG_PARSE_FAILED]
             ELSE [ok |-> TRUE,
                   result |->
                     Spread(Spread(currentQuestion,
                                   IF Has(p.value, "questions") THEN r.data ELSE <<>>),
                            [difficulty |-> newDifficulty])]

\* exam.questions.find(q => q.id === qId)
find(ex, qId) ==
    LET first == CHOOSE i \in withId(ex, qId) : \A j \in withId(ex, qId) : i <= j
    IN  ex.questions[first]

\* tempQuestions (216)
tempQuestions(ex, qId) ==
    [i \in 1..Len(ex.questions) |->
       IF ex.questions[i].id = qId
       THEN Spread(ex.questions[i], [text |-> PLACEHOLDER])
       ELSE ex.questions[i]]

\* an updater that stores the question as regenerateQuestion returned it
applyAsReturned(prev, qId, newQ) ==
    IF prev = Null THEN Null
    ELSE Spread(prev,
                [questions |->
                   [i \in 1..Len(prev.questions) |->
                      IF prev.questions[i].id = qId THEN newQ ELSE prev.questions[i]]])

\* the updater of the success path (223-226), applied to the exam of that time
applyRegenerated(prev, qId, newQ) ==
    IF prev = Null THEN Null
    ELSE Spread(prev,
                [questions |->
                   [i \in 1..Len(prev.questions) |->
                      IF prev.questions[i].id = qId
                      THEN IF Has(prev.questions[i], "page")
                           THEN Spread(newQ, [id |-> qId, page |-> prev.questions[i].page])
                           ELSE [k \in DOMAIN Spread(newQ, [id |-> qId]) \ {"page"} |->
                                   Spread(newQ, [id |-> qId])[k]]
                      ELSE prev.questions[i]]])

\* a revert that does not look at the id
revertEveryQuestion(prev, qId, originalText) ==
    IF prev = Null THEN Null
    ELSE Spread(prev,
                [questions |->
                   [i \in 1..Len(prev.questions) |->
                      Spread(prev.questions[i], [text |-> originalText])]])

\* the updater of the catch block (229-232)
revert(prev, qId, originalText) ==
    IF prev = Null THEN Null
    ELSE Spread(prev,
                [questions |->
                   [i \in 1..Len(prev.questions) |->
                      IF prev.questions[i].id = qId
                      THEN Spread(prev.questions[i], [text |-> originalText])
                      ELSE prev.questions[i]]])

\* the buttons of the regenerate menu that are pressed: the first and the last
\* of its three (ExamRenderer.tsx 464-466)
RegenDifficulties == {"Easy", "Hard"}

\* a difficulty button of a question's regenerate menu (464-466), up to the
\* await of line 221
handleRegenerateQuestion ==
    /\ canEditQuestions
    /\ \E i \in 1..Len(exam.questions), newDifficulty \in RegenDifficulties :
         LET qId == exam.questions[i].id
             questionToUpdate == find(exam, qId)
         IN  /\ exam' = Spread(exam, [questions |-> tempQuestions(exam, qId)])
             /\ regens' = Append(regens,
                                 [qId |-> qId, newDifficulty |-> newDifficulty,
                                  originalText |-> questionToUpdate.text,
                                  questionToUpdate |-> questionToUpdate])
             /\ last' = [op |-> "handleRegenerateQuestion", qId |-> qId, clicked |-> i]
    /\ edits' = edits + 1
    /\ UNCHANGED <<pdfState, saveLog, config, loading, error, isEditing, addQuestionType, storage, apiKey,
                   genReq, reads, text, parsed>>
    /\ view' = render(exam', isEditing')

\* the rest of handleRegenerateQuestion, when the request of one pending
\* regeneration settles (221-233)
regenerateSettled ==
    /\ \E n \in 1..Len(regens), r \in RegenResponses :
         LET rq == regens[n]
             out == regenerateQuestion(rq.questionToUpdate, rq.newDifficulty, apiKey, r)
         IN  /\ exam' = IF out.ok THEN applyRegenerated(exam, rq.qId, out.result)
                        ELSE revert(exam, rq.qId, rq.originalText)
             /\ regens' = SelectIdx(regens, (1..Len(regens)) \ {n})
             /\ last' = [op |-> "regenerateSettled",
                         outcome |-> IF out.ok THEN "success" ELSE "failure",
                         request |-> rq]
    /\ UNCHANGED <<pdfState, saveLog, config, loading, error, isEditing, addQuestionType, storage,
                   apiKey, genReq, reads, edits, text, parsed>>
    /\ view' = render(exam', isEditing')

-----------------------------------------------------------------------------
(* PDF export: processPdf (App.tsx 108-152), its buttons in the toolbar     *)
(* (619-635) and in the preview modal (660-685).  A document is the         *)
(* sequence of its pages, a page the sequence of the sheet elements drawn   *)
(* on it; a sheet element is known by the key of its page.                  *)

\* the exports that may be awaiting their document at one time
MaxExports == 2

\* document.querySelectorAll('.sheet') (109): the sheets on screen, in
\* document order; there are none without an exam (577)
sheetElements(ex, v) == IF ex = Null THEN <<>> ELSE [i \in 1..Len(v) |-> v[i].page]

\* pdf.addPage() (131): one more page, empty
addPage(pdf) == Append(pdf, <<>>)

\* .from(element) ... .toPdf() of the library (126, 132): the element is drawn
\* on the last page of the document, a document of one page being made when
\* there is none yet ("one PDF page per sheet element")
toPdf(pdf, element) ==
    IF Len(pdf) = 0 THEN <<<<element>>>>
    ELSE [pdf EXCEPT ![Len(pdf)] = Append(@, element)]

RECURSIVE laterSheets(_, _, _)
\* the loop over the sheets from position i on (129-133)
laterSheets(pdf, els, i) ==
    IF i > Len(els) THEN pdf
    ELSE laterSheets(toPdf(addPage(pdf), els[i]), els, i + 1)

\* a chain whose loop starts at the first sheet
workerFromFirst(els) == laterSheets(toPdf(<<>>, els[1]), els, 1)

\* the document of the worker chain (126-133): the first sheet, then the loop
\* from the second
worker(els) == laterSheets(toPdf(<<>>, els[1]), els, 2)

\* processPdf(action) up to its await (108-138), or to its end when it returns
\* or reaches finally without awaiting
processPdf(action) ==
    LET sheetsNow == sheetElements(exam, view)
    IN  /\ IF Len(sheetsNow) = 0
           THEN /\ UNCHANGED <<isGeneratingPdf, pdfMode, exports>>
                /\ last' = [op |-> "processPdf", action |-> action,
                            outcome |-> "returned", sheets |-> sheetsNow]
           ELSE IF ~html2pdf
           THEN /\ isGeneratingPdf' = FALSE
                /\ pdfMode' = FALSE
                /\ exports' = exports
                /\ last' = [op |-> "processPdf", action |-> action,
                            outcome |-> "alert", sheets |-> sheetsNow]
           ELSE /\ Len(exports) < MaxExports
                /\ isGeneratingPdf' = TRUE
                /\ pdfMode' = TRUE
                /\ exports' = Append(exports, [action |-> action, sheets |-> sheetsNow])
                /\ last' = [op |-> "processPdf", action |-> action,
                            outcome |-> "awaiting", sheets |-> sheetsNow]
        /\ UNCHANGED <<previewUrl, showPreviewModal, html2pdf, saveLog, config, loading,
                       error, exam, isEditing, addQuestionType, storage, apiKey, genReq,
                       regens, reads, edits, text, parsed>>
        /\ view' = render(exam', isEditing')

\* the preview button of the toolbar (619-626)
handlePreviewPDF ==
    /\ exam # Null
    /\ ~isGeneratingPdf
    /\ processPdf("preview")

\* the download button of the toolbar (628-635)
handleDownloadPDF ==
    /\ exam # Null
    /\ ~isGeneratingPdf
    /\ processPdf("save")

\* the download button of the preview modal (679-681)
downloadFromPreview ==
    /\ showPreviewModal
    /\ previewUrl # Null
    /\ processPdf("save")

\* the rest of processPdf when worker.save() or worker.output() settles
\* (135-151): the document is saved or previewed, or the catch block alerts;
\* finally takes the mode off the wrapper, when there is one, and the flag
processPdfSettled ==
    /\ \E n \in 1..Len(exports), fulfilled \in BOOLEAN :
         LET call == exports[n]
             pdf == worker(call.sheets)
         IN  /\ IF fulfilled /\ call.action = "preview"
                THEN /\ previewUrl' = [blob |-> pdf]
                     /\ showPreviewModal' = TRUE
                ELSE UNCHANGED <<previewUrl, showPreviewModal>>
             /\ last' = [op |-> "processPdfSettled", action |-> call.action,
                         sheets |-> call.sheets,
                         outcome |-> IF ~fulfilled THEN "alert"
                                     ELSE IF call.action = "save" THEN "saved"
                                     ELSE "previewed",
                         document |-> IF fulfilled THEN pdf ELSE <<>>]
             /\ exports' = SelectIdx(exports, (1..Len(exports)) \ {n})
    /\ pdfMode' = FALSE
    /\ isGeneratingPdf' = FALSE
    /\ UNCHANGED <<html2pdf, saveLog, config, loading, error, exam, isEditing,
                   addQuestionType, storage, apiKey, genReq, regens, reads, edits,
                   text, parsed>>
    /\ view' = render(exam', isEditing')

\* closePreview (157-163), from the two close buttons of the modal
closePreview ==
    /\ showPreviewModal
    /\ previewUrl # Null
    /\ showPreviewModal' = FALSE
    /\ previewUrl' = Null
    /\ last' = [op |-> "closePreview"]
    /\ UNCHANGED <<isGeneratingPdf, pdfMode, html2pdf, exports, saveLog, config, loading,
                   error, exam, isEditing, addQuestionType, storage, apiKey, genReq,
                   regens, reads, edits, text, parsed>>
    /\ view' = render(exam', isEditing')

-----------------------------------------------------------------------------
(* The parser on its own: every text of at most MaxTextLen tokens *)

NotRun == [ran |-> FALSE]

runParse ==
    /\ ~parsed.ran
    /\ parsed' = Spread(parseJSONSafe(text), [ran |-> TRUE])
    /\ last' = [op |-> "parseJSONSafe"]
    /\ UNCHANGED <<pdfState, saveLog, config, loading, error, exam, isEditing, addQuestionType, storage,
                   apiKey, genReq, regens, reads, edits, text>>
    /\ view' = render(exam', isEditing')

\* no PDF export has been asked for (App.tsx 40-42)
noExport ==
    /\ isGeneratingPdf = FALSE
    /\ pdfMode = FALSE
    /\ previewUrl = Null
    /\ showPreviewModal = FALSE
    /\ exports = <<>>

InitApp ==
    /\ config = INITIAL_CONFIG
    /\ loading = FALSE
    /\ error = Null
    /\ exam = Null
    /\ isEditing = FALSE
    /\ addQuestionType = "SHORT_ANSWER"
    /\ storage = Null
    /\ genReq = Null
    /\ regens = <<>>
    /\ reads = <<>>
    /\ edits = 0
    /\ text = <<>>
    /\ parsed = NotRun
    /\ view = Null
    /\ saveLog = Null
    /\ last = [op |-> "none"]

InitParse ==
    /\ text \in Texts
    /\ apiKey = TRUE
    /\ html2pdf = TRUE
    /\ noExport
    /\ config = INITIAL_CONFIG
    /\ loading = FALSE
    /\ error = Null
    /\ exam = Null
    /\ isEditing = FALSE
    /\ addQuestionType = "SHORT_ANSWER"
    /\ storage = Null
    /\ genReq = Null
    /\ regens = <<>>
    /\ reads = <<>>
    /\ edits = 0
    /\ parsed = NotRun
    /\ view = Null
    /\ saveLog = Null
    /\ last = [op |-> "none"]

NextParse == runParse

SpecParse == InitParse /\ [][NextParse]_vars

-----------------------------------------------------------------------------
(* Generation: the checks of handleGenerate and the outcome of the request, *)
(* from the configurations around the limits of the checks                  *)

countsOf(n) == [t \in QuestionType |-> IF t = "MULTIPLE_CHOICE" THEN n ELSE 0]

\* Configurations the edits of the form lead to
GenConfigs ==
    { Spread(Spread(INITIAL_CONFIG,
                    [sourceType |-> st, content |-> c, questionCounts |-> qc]), fd) :
        st \in SourceType,
        c \in {<<>>, <<"W">>, <<"a">>},
        qc \in {INITIAL_COUNTS} \cup {countsOf(n) : n \in {0, 1, 40, 41}},
        fd \in {<<>>, [fileData |-> [mimeType |-> "m", data |-> "d"]]} }

InitGen ==
    /\ config \in GenConfigs
    /\ apiKey \in BOOLEAN
    /\ html2pdf = TRUE
    /\ noExport
    /\ loading = FALSE
    /\ error = Null
    /\ exam = Null
    /\ isEditing = FALSE
    /\ addQuestionType = "SHORT_ANSWER"
    /\ storage = Null
    /\ genReq = Null
    /\ regens = <<>>
    /\ reads = <<>>
    /\ edits = 0
    /\ text = <<>>
    /\ parsed = NotRun
    /\ view = Null
    /\ saveLog = Null
    /\ last = [op |-> "none"]

NextGen ==
    \/ handleGenerate
    \/ generateSettled
    \/ updateCount
    \/ toggleEditing

SpecGen == InitGen /\ [][NextGen]_vars

-----------------------------------------------------------------------------
(* The life of an exam: generation, the edits of the displayed exam and the *)
(* regeneration of its questions, from a configuration that passes the      *)
(* checks of handleGenerate                                                 *)

Init ==
    /\ InitApp
    /\ apiKey = TRUE
    /\ html2pdf = TRUE
    /\ noExport

Next ==
    \/ editContent
    \/ handleGenerate
    \/ generateSettled
    \/ toggleEditing
    \/ editQuestionText
    \/ movePage
    \/ delete
    \/ setAddQuestionType
    \/ handleAddQuestion
    \/ updatePageCount
    \/ handleRegenerateQuestion
    \/ regenerateSettled

Spec == Init /\ [][Next]_vars

-----------------------------------------------------------------------------
(* The layout on its own: every exam of at most MaxLayoutQuestions          *)
(* questions of the six types; a page may be missing (types.ts 20) or 0,    *)
(* and so may pageCount, which the renderer reads as exam.pageCount || 1.   *)
(* The exam is shown in edit mode with one edit to go; a move or an         *)
(* addition puts a question on page 1 explicitly.                           *)

MaxLayoutQuestions == 2

LayoutQuestions ==
    UNION { { [i \in 1..n |-> Spread([id |-> i, type |-> f[i][1], text |-> "t"], f[i][2])] :
                f \in [1..n -> QuestionType
                                 \X {<<>>, [page |-> 0], [page |-> 2]}] } :
            n \in 0..MaxLayoutQuestions }

LayoutExams ==
    { mountEffect(Spread([header |-> [title |-> "title"], questions |-> qs,
                          evaluationTable |-> <<>>], pc)) :
        qs \in LayoutQuestions,
        pc \in {<<>>, [pageCount |-> 0], [pageCount |-> 2]} }

InitLayout ==
    /\ exam \in LayoutExams
    /\ isEditing = TRUE
    /\ view = render(exam, isEditing)
    /\ saveLog = Null
    /\ edits = MaxExamEdits - 1
    /\ apiKey = TRUE
    /\ html2pdf = TRUE
    /\ noExport
    /\ config = INITIAL_CONFIG
    /\ loading = FALSE
    /\ error = Null
    /\ addQuestionType = "SHORT_ANSWER"
    /\ storage = Null
    /\ genReq = Null
    /\ regens = <<>>
    /\ reads = <<>>
    /\ text = <<>>
    /\ parsed = NotRun
    /\ last = [op |-> "none"]

NextLayout ==
    \/ movePage
    \/ delete
    \/ handleAddQuestion
    \/ updatePageCount

SpecLayout == InitLayout /\ [][NextLayout]_vars

-----------------------------------------------------------------------------
(* The form and the stored configuration: the edits of the form, saving and *)
(* loading, from a first visit or with an item left by an earlier visit     *)

InitStore ==
    /\ config = INITIAL_CONFIG
    /\ storage \in {Null,
                     [item |-> JSONstringify(Spread(INITIAL_CONFIG,
                                                    [sourceType |-> "FILE",
                                                     difficulty |-> "Hard"]))]}
    /\ apiKey = TRUE
    /\ html2pdf = TRUE
    /\ noExport
    /\ loading = FALSE
    /\ error = Null
    /\ exam = Null
    /\ isEditing = FALSE
    /\ addQuestionType = "SHORT_ANSWER"
    /\ genReq = Null
    /\ regens = <<>>
    /\ reads = <<>>
    /\ edits = 0
    /\ text = <<>>
    /\ parsed = NotRun
    /\ view = Null
    /\ saveLog = Null
    /\ last = [op |-> "none"]

NextStore ==
    \/ setSourceType
    \/ editContent
    \/ setDifficulty
    \/ updateCount
    \/ setPageCount
    \/ handleFileUpload
    \/ fileRead
    \/ handleSaveConfig
    \/ handleLoadConfig

SpecStore == InitStore /\ [][NextStore]_vars

-----------------------------------------------------------------------------
(* Exporting: an exam is generated, its page count changed, and it is       *)
(* previewed and saved as PDF, with the library loaded or not               *)

InitPdf ==
    /\ InitApp
    /\ apiKey = TRUE
    /\ html2pdf \in BOOLEAN
    /\ noExport

NextPdf ==
    \/ editContent
    \/ handleGenerate
    \/ generateSettled
    \/ updatePageCount
    \/ handlePreviewPDF
    \/ handleDownloadPDF
    \/ downloadFromPreview
    \/ processPdfSettled
    \/ closePreview

SpecPdf == InitPdf /\ [][NextPdf]_vars

-----------------------------------------------------------------------------
(* A generation and the form: the page count is typed or a stored           *)
(* configuration with a file source is loaded, a file is uploaded, an exam  *)
(* is generated, and the pages of the exam and of its questions are changed *)

InitPages ==
    /\ config = INITIAL_CONFIG
    /\ storage \in {Null,
                     [item |-> JSONstringify(Spread(INITIAL_CONFIG,
                                                    [sourceType |-> "FILE"]))]}
    /\ apiKey = TRUE
    /\ html2pdf = TRUE
    /\ noExport
    /\ loading = FALSE
    /\ error = Null
    /\ exam = Null
    /\ isEditing = FALSE
    /\ addQuestionType = "SHORT_ANSWER"
    /\ genReq = Null
    /\ regens = <<>>
    /\ reads = <<>>
    /\ edits = 0
    /\ text = <<>>
    /\ parsed = NotRun
    /\ view = Null
    /\ saveLog = Null
    /\ last = [op |-> "none"]

NextPages ==
    \/ editContent
    \/ setPageCount
    \/ handleLoadConfig
    \/ handleFileUpload
    \/ fileRead
    \/ handleGenerate
    \/ generateSettled
    \/ toggleEditing
    \/ movePage
    \/ updatePageCount

SpecPages == InitPages /\ [][NextPages]_vars

-----------------------------------------------------------------------------
(* Regenerations among deletions and additions: the text is in the form,    *)
(* an exam is generated, and its questions are rewritten, deleted and       *)
(* added                                                                    *)

InitRegen ==
    /\ config = Spread(INITIAL_CONFIG, [content |-> <<"a">>])
    /\ apiKey = TRUE
    /\ html2pdf = TRUE
    /\ noExport
    /\ loading = FALSE
    /\ error = Null
    /\ exam = Null
    /\ isEditing = FALSE
    /\ addQuestionType = "SHORT_ANSWER"
    /\ storage = Null
    /\ genReq = Null
    /\ regens = <<>>
    /\ reads = <<>>
    /\ edits = 0
    /\ text = <<>>
    /\ parsed = NotRun
    /\ view = Null
    /\ saveLog = Null
    /\ last = [op |-> "none"]

NextRegen ==
    \/ handleGenerate
    \/ generateSettled
    \/ toggleEditing
    \/ delete
    \/ handleAddQuestion
    \/ handleRegenerateQuestion
    \/ regenerateSettled

SpecRegen == InitRegen /\ [][NextRegen]_vars

-----------------------------------------------------------------------------
(* Claims *)

\* C1: handleGenerate sends a generation request only when the total of the
\* per-type counts is in 1..40; when the total is 0 or above 40 it sets an
\* error message, sends no request and leaves loading, exam and isEditing as
\* they were.
C1_GenerateOnlyWithinLimits ==
    [][handleGenerate =>
         /\ genReq' # genReq => totalQuestions(config) \in 1..MAX_TOTAL_QUESTIONS
         /\ totalQuestions(config) \notin 1..MAX_TOTAL_QUESTIONS =>
              /\ error' # Null
              /\ genReq' = genReq
              /\ loading' = loading /\ exam' = exam /\ isEditing' = isEditing]_vars

\* C1 witness: a generation was refused for a total above 40 while an earlier
\* exam is displayed in edit mode.
C1_Witness ==
    /\ last = [op |-> "handleGenerate", outcome |-> "rejected"]
    /\ totalQuestions(config) > MAX_TOTAL_QUESTIONS
    /\ error = ERR_TOO_MANY
    /\ exam # Null /\ isEditing

\* The three forms C6 names.  A fenced block runs from an opening fence to
\* the next fence; the brace substring runs from the first "{" to the last "}".
fencedBlocks(s) ==
    { TrimW(SubSeq(s, i + 1, j - 1)) :
        <<i, j>> \in { p \in (1..Len(s)) \X (1..Len(s)) :
                         /\ p[1] < p[2]
                         /\ s[p[1]] = "F"
                         /\ IsFence(s[p[2]])
                         /\ \A k \in (p[1] + 1)..(p[2] - 1) : ~IsFence(s[k]) } }

isRawJson(s) == JSONparse(s).ok

hasFencedJson(s) == \E b \in fencedBlocks(s) : JSONparse(b).ok

hasBraceJson(s) ==
    /\ IndexOf(s, "{") # -1
    /\ LastIndexOf(s, "}") # -1
    /\ IndexOf(s, "{") < LastIndexOf(s, "}")
    /\ JSONparse(SubSeq(s, IndexOf(s, "{") + 1, LastIndexOf(s, "}") + 1)).ok

\* C6 (as claimed, first half): parseJSONSafe returns a parsed value for every
\* text that is valid JSON, or contains a ```json fenced block whose content is
\* valid JSON, or whose substring from the first "{" to the last "}" is valid
\* JSON.  Violated: a fenced block that holds no JSON makes the parser throw
\* before it tries the braces (or a later block).
C6_AcceptsTheThreeForms ==
    parsed.ran /\ (isRawJson(text) \/ hasFencedJson(text) \/ hasBraceJson(text))
      => parsed.ok

\* C6 (as claimed, second half): for every text in none of the three forms
\* parseJSONSafe fails.  Violated too: with the last "}" before the first "{",
\* substring() swaps its arguments and the text between them is parsed.
C6_RejectsEveryOtherText ==
    parsed.ran /\ ~(isRawJson(text) \/ hasFencedJson(text) \/ hasBraceJson(text))
      => ~parsed.ok

\* C7: whenever generateExam cannot turn the response into an exam (the request
\* fails, the response has no text, no parse strategy succeeds, or the parsed
\* value has no questions) the error handleGenerate shows is the one generic
\* generation-failed error, never the error of the cause, and handleGenerate
\* ends with loading = false and exam = null.
C7_GenericGenerationFailure ==
    last.op = "generateSettled"
      /\ last.cause \in {"request", "empty", "parse", "noQuestions"}
      => /\ error = MSG_GENERATION_FAILED
         /\ ~loading
         /\ exam = Null

\* C7 witness: a generation whose response no parse strategy accepts has
\* settled, with the generic error
C7_Witness ==
    /\ last.op = "generateSettled"
    /\ last.cause = "parse"
    /\ error = MSG_GENERATION_FAILED
    /\ ~loading
    /\ exam = Null

\* C8 (as claimed): when handleRegenerateQuestion is called from a question,
\* the text of that question becomes the placeholder at once, the text the
\* handler keeps for the revert is the text that question had, and when the
\* request fails every question with the regenerated id gets the kept text.
\* Violated when the AI's answer gave two questions one id: the handler keeps
\* the text of the first of them, whichever was clicked.
C8_PlaceholderThenRestore ==
    [][/\ handleRegenerateQuestion =>
            LET rq == regens'[Len(regens')]
            IN  /\ exam'.questions[last'.clicked].text = PLACEHOLDER
                /\ exam.questions[last'.clicked].text = rq.originalText
       /\ regenerateSettled /\ last'.outcome = "failure" /\ exam' # Null =>
            \A i \in withId(exam', last'.request.qId) :
               exam'.questions[i].text = last'.request.originalText]_vars

\* C9 (as claimed): after a failure of the generation or of a regeneration the
\* error state holds a message in Persian.  Violated by both: generateExam's
\* error carries an English message, which handleGenerate shows as it is, and
\* the catch block of handleRegenerateQuestion does not set the error state.
C9_FailuresSurfaceInPersian ==
    last.op \in {"generateSettled", "regenerateSettled"} /\ last.outcome = "failure"
      => error # Null /\ error.lang = "fa"

\* What the layout claims say of an exam, in their own words

\* the page of a question: its page field, page 1 when the field is missing or 0
claimedPage(q) == IF "page" \in DOMAIN q /\ q.page # 0 THEN q.page ELSE 1

\* pageCount, taken as 1 when it is missing or 0
claimedPageCount(ex) ==
    IF "pageCount" \in DOMAIN ex /\ ex.pageCount # 0 THEN ex.pageCount ELSE 1

\* the highest page number assigned to a question, 0 without questions
highestUsedPage(ex) ==
    SetMax({0} \cup {claimedPage(ex.questions[i]) : i \in 1..Len(ex.questions)})

\* the place of a type in the fixed order of the sections
typeRank(t) ==
    CASE t = "TRUE_FALSE" -> 1
      [] t = "MATCHING" -> 2
      [] t = "MULTIPLE_CHOICE" -> 3
      [] t = "FILL_IN_THE_BLANK" -> 4
      [] t = "SHORT_ANSWER" -> 5
      [] t = "LONG_ANSWER" -> 6

\* where a question is shown: sheet, section of the sheet, place in the section
places(v, q) ==
    { pl \in (1..Len(v)) \X (1..6) \X (1..Len(exam.questions)) :
        /\ pl[2] <= Len(v[pl[1]].sections)
        /\ pl[3] <= Len(v[pl[1]].sections[pl[2]].questions)
        /\ v[pl[1]].sections[pl[2]].questions[pl[3]] = q }

\* the pages that hold a question
usedPages(ex) == {claimedPage(ex.questions[i]) : i \in 1..Len(ex.questions)}

\* C2: in the layout every question of exam.questions appears exactly once, on
\* the page of its page field (page 1 when missing or 0), in the section of its
\* type; the sections of a page are in the order TRUE_FALSE, MATCHING,
\* MULTIPLE_CHOICE, FILL_IN_THE_BLANK, SHORT_ANSWER, LONG_ANSWER, none is
\* empty, and the questions of a section keep their order from exam.questions.
C2_EveryQuestionOnceInItsSection ==
    exam # Null =>
      LET qs == exam.questions
          posOf(q) == CHOOSE i \in 1..Len(qs) : qs[i] = q
      IN  /\ \A i \in 1..Len(qs) :
               \E pl \in places(view, qs[i]) :
                 /\ places(view, qs[i]) = {pl}
                 /\ view[pl[1]].page = claimedPage(qs[i])
                 /\ view[pl[1]].sections[pl[2]].type = qs[i].type
          /\ \A p \in 1..Len(view) :
               LET secs == view[p].sections
               IN  /\ \A k1, k2 \in 1..Len(secs) :
                        k1 < k2 => typeRank(secs[k1].type) < typeRank(secs[k2].type)
                   /\ \A k \in 1..Len(secs) :
                        /\ Len(secs[k].questions) >= 1
                        /\ \A m1, m2 \in 1..Len(secs[k].questions) :
                             m1 < m2 => posOf(secs[k].questions[m1])
                                          < posOf(secs[k].questions[m2])

\* C2 witness: after a move the first page holds a LONG_ANSWER question without
\* a page field followed in exam.questions by a TRUE_FALSE question, and shows
\* the TRUE_FALSE section first
C2_Witness ==
    /\ last.op = "moveQuestionPage"
    /\ exam # Null
    /\ Len(exam.questions) = 2
    /\ exam.questions[1].type = "LONG_ANSWER" /\ "page" \notin DOMAIN exam.questions[1]
    /\ exam.questions[2].type = "TRUE_FALSE" /\ exam.questions[2].page = 1
    /\ Len(view[1].sections) = 2
    /\ view[1].sections[1].type = "TRUE_FALSE"

\* C3: the number of rendered pages is max(pageCount, highest page assigned to
\* a question), pageCount taken as 1 when missing or 0; the rendered page
\* numbers are exactly 1..that number, so every question's page is rendered.
C3_RenderedPageCount ==
    exam # Null =>
      LET n == Max2(claimedPageCount(exam), highestUsedPage(exam))
      IN  /\ Len(view) = n
          /\ \A p \in 1..n : view[p].page = p
          /\ usedPages(exam) \subseteq {view[p].page : p \in 1..Len(view)}

\* C3 witness: updatePageCount has lowered pageCount below the highest used
\* page, and that page is still rendered
C3_Witness ==
    /\ last = [op |-> "updatePageCount", delta |-> -1]
    /\ exam.pageCount < highestUsedPage(exam)
    /\ Len(view) = highestUsedPage(exam)

\* the first half of C4: every page of 1..totalRenderPages is rendered as one
\* sheet; a page without a question shows the placeholder and no section, a
\* page with a question shows no placeholder
emptyPagesShowPlaceholder ==
    exam # Null =>
      \A p \in 1..Max2(claimedPageCount(exam), highestUsedPage(exam)) :
        /\ p <= Len(view) /\ view[p].page = p
        /\ IF p \in usedPages(exam) THEN ~view[p].placeholder
           ELSE view[p].placeholder /\ view[p].sections = <<>>

\* the pages that held a question before the step and hold none after it
emptied == usedPages(exam) \ usedPages(exam')

\* C4 (as claimed): empty pages show the placeholder and no section, pages
\* with questions show no placeholder, and deleting the last question of a
\* page leaves that page rendered as an empty sheet.  Violated: a page above
\* pageCount, with no question on a later page, is no longer rendered.
C4_AsClaimed ==
    /\ []emptyPagesShowPlaceholder
    /\ [][delete =>
            \A p \in emptied :
               \E k \in 1..Len(view') : view'[k].page = p /\ view'[k].placeholder]_vars

\* C4 (amended): as above, but deleting the last question of a page leaves that
\* page rendered as an empty sheet exactly when its number is at most pageCount
\* or a later page still holds a question; otherwise the page is not rendered
\* any more.
C4_EmptyPagesRendered ==
    /\ []emptyPagesShowPlaceholder
    /\ [][delete =>
            \A p \in emptied :
               IF p <= claimedPageCount(exam') \/ p < highestUsedPage(exam')
               THEN \E k \in 1..Len(view') : view'[k].page = p /\ view'[k].placeholder
               ELSE \A k \in 1..Len(view') : view'[k].page # p]_vars

\* C4 witness: the last question of page 2 was deleted, another question
\* remains, and page 2 is shown as an empty sheet
C4_Witness ==
    /\ last.op = "deleteQuestion" /\ last.page = 2
    /\ Len(exam.questions) = 1
    /\ 2 \notin usedPages(exam)
    /\ Len(view) = 2
    /\ view[2].placeholder /\ view[2].sections = <<>>
    /\ ~view[1].placeholder

\* the grouping of a layout: the rendered pages, the sequence of section types
\* on each and the set of questions (by id) in each section
grouping(v) ==
    [p \in 1..Len(v) |->
       [page |-> v[p].page,
        types |-> [k \in 1..Len(v[p].sections) |-> v[p].sections[k].type],
        members |-> [k \in 1..Len(v[p].sections) |->
                       {v[p].sections[k].questions[m].id :
                          m \in 1..Len(v[p].sections[k].questions)}]]]

\* what C5 says the grouping depends on: pageCount and the (id, page, type)
\* assignments, as a set
assignments(ex) ==
    [pageCount |-> claimedPageCount(ex),
     questions |-> {<<ex.questions[i].id, claimedPage(ex.questions[i]), ex.questions[i].type>> :
                      i \in 1..Len(ex.questions)}]

\* the types of a set in the fixed order of the sections
inTypeOrder(ts) ==
    [k \in 1..Cardinality(ts) |->
       CHOOSE t \in ts : Cardinality({u \in ts : typeRank(u) < typeRank(t)}) = k - 1]

\* the grouping as a function of the assignments alone
groupingOf(a) ==
    LET n == SetMax({0, a.pageCount} \cup {x[2] : x \in a.questions})
    IN  [p \in 1..n |->
           LET types == inTypeOrder({x[3] : x \in {y \in a.questions : y[2] = p}})
           IN  [page |-> p,
                types |-> types,
                members |-> [k \in 1..Len(types) |->
                               {x[1] : x \in {y \in a.questions :
                                                y[2] = p /\ y[3] = types[k]}}]]]

\* C5: the grouping (the rendered pages, the sequence of section types on each
\* page, the set of questions in each section) is a function of pageCount and
\* of the (id, page, type) assignments only: what is shown, and what would be
\* shown in or out of edit mode, is the grouping computed from the assignments
\* alone, whatever the order of exam.questions, the texts, labels and style.
C5_GroupingDeterministic ==
    exam # Null =>
      /\ grouping(view) = groupingOf(assignments(exam))
      /\ \A editing \in BOOLEAN :
           grouping(render(exam, editing)) = groupingOf(assignments(exam))

\* C5 witness: after an addition a page holds two questions whose order in
\* exam.questions is against the order of the sections
C5_Witness ==
    /\ last.op = "handleAddQuestion"
    /\ \E i, j \in 1..Len(exam.questions) :
         /\ i < j
         /\ claimedPage(exam.questions[i]) = claimedPage(exam.questions[j])
         /\ typeRank(exam.questions[i].type) > typeRank(exam.questions[j].type)

uniqueIds(ex) ==
    \A i, j \in 1..Len(ex.questions) :
       ex.questions[i].id = ex.questions[j].id => i = j

\* C11 (as claimed): in every reachable state with an exam, no two questions of
\* exam.questions have the same id.  Violated after generation: the ids are
\* taken from the AI's answer as they are, and an answer may repeat one.
C11_UniqueIds == exam # Null => uniqueIds(exam)


\* every question of an exam has a page field that holds an integer >= 1
pagesFromOne(ex) ==
    \A i \in 1..Len(ex.questions) :
       /\ "page" \in DOMAIN ex.questions[i]
       /\ ex.questions[i].page \in Nat
       /\ ex.questions[i].page >= 1

\* C12: in every reachable state with an exam, every question's page is an
\* integer >= 1; a generation puts every question on page 1, handleAddQuestion
\* puts the new question on the highest page in use (1 in an empty exam),
\* moveQuestionPage 'prev' gives max(1, page - 1), and a completed regeneration
\* leaves every question on the page it was on.
C12_PagesFromOne ==
    /\ [](exam # Null => pagesFromOne(exam))
    /\ [][/\ last'.op = "generateSettled" /\ last'.outcome = "success" =>
               \A i \in 1..Len(exam'.questions) : exam'.questions[i].page = 1
          /\ last'.op = "handleAddQuestion" =>
               exam'.questions[Len(exam'.questions)].page =
                 IF Len(exam.questions) = 0 THEN 1 ELSE highestUsedPage(exam)
          /\ last'.op = "moveQuestionPage" /\ last'.direction = "prev" =>
               \A i \in withId(exam, last'.id) :
                  exam'.questions[i].page =
                    IF exam.questions[i].page = 1 THEN 1 ELSE exam.questions[i].page - 1
          /\ last'.op = "regenerateSettled" /\ last'.outcome = "success"
               /\ exam # Null =>
               /\ Len(exam'.questions) = Len(exam.questions)
               /\ \A i \in 1..Len(exam.questions) :
                     exam'.questions[i].page = exam.questions[i].page]_vars

\* a regeneration has completed on a question that was moved to page 2 while
\* its request was pending, and the question is still on page 2
C12_Witness ==
    /\ last.op = "regenerateSettled"
    /\ last.outcome = "success"
    /\ exam # Null
    /\ \E i \in withId(exam, last.request.qId) :
          /\ exam.questions[i].page = 2
          /\ last.request.questionToUpdate.page = 1


\* a question has options only when it is a multiple-choice question and pairs
\* only when it is a matching question
fieldsFitType(q) ==
    /\ "options" \in DOMAIN q => q.type = "MULTIPLE_CHOICE"
    /\ "pairs" \in DOMAIN q => q.type = "MATCHING"

\* C13 (as claimed): in every reachable state with an exam, a question carries
\* options only if its type is MULTIPLE_CHOICE and pairs only if its type is
\* MATCHING.  Violated by a completed regeneration: the old question is overlaid
\* with the fields of the AI's answer, whatever the type of the question.
C13_FieldsFitType ==
    exam # Null => \A i \in 1..Len(exam.questions) : fieldsFitType(exam.questions[i])


\* C14: handleFileUpload accepts a file if and only if its size is at most
\* 10 * 1024 * 1024 bytes, the limit included.  A larger file sets the error,
\* starts no read and leaves config as it is; an accepted file starts a read,
\* and when the read ends config.fileData holds the file's mime type and its
\* base64 data and the error is cleared.
C14_FileSizeLimit ==
    [][/\ last'.op = "handleFileUpload" =>
            /\ last'.outcome = "reading" <=> last'.file.size <= 10 * 1024 * 1024
            /\ config' = config
            /\ IF last'.outcome = "reading"
               THEN /\ Len(reads') = Len(reads) + 1
                    /\ reads'[Len(reads')].file = last'.file
               ELSE /\ reads' = reads
                    /\ error' = ERR_FILE_TOO_LARGE
       /\ last'.op = "onloadend" =>
            /\ config'.fileData = [mimeType |-> last'.file.type,
                                   data |-> "base64 of " \o last'.file.name]
            /\ error' = Null]_vars

\* a file of exactly the largest size has been read into the config
C14_Witness ==
    /\ last.op = "onloadend"
    /\ last.file.size = 10 * 1024 * 1024
    /\ "fileData" \in DOMAIN config
    /\ error = Null


\* the three request modes, told by what the request holds
searchMode(rq) ==
    /\ "tools" \in DOMAIN rq.config
    /\ "responseSchema" \notin DOMAIN rq.config
    /\ \A i \in 1..Len(rq.contents) : "inlineData" \notin DOMAIN rq.contents[i]

inlineMode(rq) ==
    /\ "tools" \notin DOMAIN rq.config
    /\ "responseSchema" \in DOMAIN rq.config
    /\ \E i \in 1..Len(rq.contents) : "inlineData" \in DOMAIN rq.contents[i]

plainMode(rq) ==
    /\ "tools" \notin DOMAIN rq.config
    /\ "responseSchema" \in DOMAIN rq.config
    /\ \A i \in 1..Len(rq.contents) : "inlineData" \notin DOMAIN rq.contents[i]

\* the mode the claim gives a configuration
modeAsClaimed(cfg, rq) ==
    /\ cfg.sourceType = "URL" => searchMode(rq)
    /\ cfg.sourceType = "FILE" /\ "fileData" \in DOMAIN cfg =>
         /\ inlineMode(rq)
         /\ rq.contents[1].inlineData = cfg.fileData
    /\ cfg.sourceType = "TEXT" \/ (cfg.sourceType = "FILE" /\ "fileData" \notin DOMAIN cfg) =>
         plainMode(rq)
    /\ "tools" \in DOMAIN rq.config <=> cfg.sourceType = "URL"
    /\ "responseSchema" \in DOMAIN rq.config <=> cfg.sourceType # "URL"

\* C15: generateExam picks exactly one request mode from the configuration: a
\* URL source sends the search tool and no response schema, a FILE source with
\* fileData sends the file inline with the schema, every other case sends the
\* plain text prompt with the schema; the tool is attached if and only if the
\* source is URL and the schema is sent if and only if it is not.  Stated for
\* the request in flight and for generateExam on the configuration of the form.
C15_RequestMode ==
    /\ genReq # Null /\ genReq.request # Null =>
         modeAsClaimed(genReq.cfg, genReq.request)
    /\ modeAsClaimed(config, requestOf(config))

\* a request for an address is in flight, and the configuration holds a file
\* read earlier
C15_Witness ==
    /\ genReq # Null
    /\ genReq.request # Null
    /\ genReq.cfg.sourceType = "URL"
    /\ "fileData" \in DOMAIN genReq.cfg
    /\ searchMode(genReq.request)


\* the document has one page for each of the sheets, in their order, with that
\* sheet alone on it
onePagePerSheet(document, els) ==
    /\ Len(document) = Len(els)
    /\ \A i \in 1..Len(els) : document[i] = <<els[i]>>

\* an export called with no sheet element on screen changes nothing
nothingWithoutSheets ==
    last'.op = "processPdf" /\ Len(last'.sheets) = 0 =>
      UNCHANGED <<config, loading, error, exam, isEditing, addQuestionType, storage,
                  apiKey, genReq, regens, reads, edits, text, parsed, view, pdfState,
                  saveLog>>

sameButQuestions(ex1, ex2) ==
    /\ DOMAIN ex1 = DOMAIN ex2
    /\ \A k \in DOMAIN ex1 \ {"questions"} : ex1[k] = ex2[k]
    /\ Len(ex1.questions) = Len(ex2.questions)

\* the two questions differ at most in the fields of the set
sameBut(q1, q2, fields) ==
    /\ DOMAIN q1 \ fields = DOMAIN q2 \ fields
    /\ \A k \in DOMAIN q1 \ fields : q1[k] = q2[k]

\* C17: when a regeneration fails, the revert changes only the text field of
\* the question with the regenerated id, which gets the text kept when the
\* regeneration started; every other field of that question, every other
\* question, and the header, evaluationTable, pageCount, labels and style of
\* the exam keep the values they have at the moment of the failure.
C17_RevertChangesTextOnly ==
    [][last'.op = "regenerateSettled" /\ last'.outcome = "failure" =>
         IF exam = Null THEN exam' = Null
         ELSE /\ exam' # Null
              /\ sameButQuestions(exam, exam')
              /\ \A i \in 1..Len(exam.questions) :
                    IF exam.questions[i].id = last'.request.qId
                    THEN /\ sameBut(exam.questions[i], exam'.questions[i], {"text"})
                         /\ exam'.questions[i].text = last'.request.originalText
                    ELSE exam'.questions[i] = exam.questions[i]]_vars

\* a regeneration has failed on a question that was moved to page 2 while the
\* request was pending: the question has its old text and is still on page 2
C17_Witness ==
    /\ last.op = "regenerateSettled"
    /\ last.outcome = "failure"
    /\ exam # Null
    /\ \E i \in withId(exam, last.request.qId) :
          /\ exam.questions[i].text = last.request.originalText
          /\ exam.questions[i].page = 2
          /\ last.request.questionToUpdate.page = 1
    /\ exam.pageCount = 2

\* C18: when a regeneration succeeds, the question with the regenerated id
\* keeps its id and the page it is on when the request completes, gets the
\* requested difficulty, and every other question, like the rest of the exam,
\* keeps the value it has at that time.
C18_RegeneratedKeepsIdAndPage ==
    [][last'.op = "regenerateSettled" /\ last'.outcome = "success" =>
         IF exam = Null THEN exam' = Null
         ELSE /\ exam' # Null
              /\ sameButQuestions(exam, exam')
              /\ \A i \in 1..Len(exam.questions) :
                    IF exam.questions[i].id = last'.request.qId
                    THEN /\ exam'.questions[i].id = exam.questions[i].id
                         /\ exam'.questions[i].page = exam.questions[i].page
                         /\ exam'.questions[i].difficulty = last'.request.newDifficulty
                    ELSE exam'.questions[i] = exam.questions[i]]_vars

\* a regeneration to Hard has succeeded after its question, the first of two,
\* was moved to page 2 while the request was pending: the question is on
\* page 2 with its id, the new text and the requested difficulty
C18_Witness ==
    /\ last.op = "regenerateSettled"
    /\ last.outcome = "success"
    /\ last.request.newDifficulty = "Hard"
    /\ last.request.questionToUpdate.page = 1
    /\ exam # Null
    /\ Len(exam.questions) = 2
    /\ exam.questions[1].id = last.request.qId
    /\ exam.questions[1].page = 2
    /\ exam.questions[1].difficulty = "Hard"
    /\ exam.questions[1].text = "ai"
    /\ exam.questions[2].id # last.request.qId


RECURSIVE without(_, _)
\* the questions of qs in their order, those with the given id left out
without(qs, id) ==
    IF Len(qs) = 0 THEN <<>>
    ELSE IF Head(qs).id = id THEN without(Tail(qs), id)
    ELSE <<Head(qs)>> \o without(Tail(qs), id)

\* the ids of the questions of an exam
idsOf(ex) == {ex.questions[i].id : i \in 1..Len(ex.questions)}

\* C19: deleteQuestion(id) removes exactly the questions whose id equals id:
\* the remaining questions keep their fields and their relative order, and
\* header, evaluationTable, pageCount, labels and style are unchanged (the
\* page count is not reduced when a page becomes empty).  Deleting an id that
\* is not present leaves the content of the exam unchanged.
C19_DeleteRemovesExactlyTheId ==
    /\ [][last'.op = "deleteQuestion" =>
            /\ DOMAIN exam' = DOMAIN exam
            /\ \A k \in DOMAIN exam \ {"questions"} : exam'[k] = exam[k]
            /\ exam'.questions = without(exam.questions, last'.id)
            /\ last'.id \notin idsOf(exam')]_vars
    /\ [](exam # Null =>
            \A id \in (0..9) \ idsOf(exam) : deleteQuestion(exam, id) = exam)

\* the only question of page 2 has been deleted: another question is left,
\* page 2 is empty and the page count is still 2
C19_Witness ==
    /\ last.op = "deleteQuestion"
    /\ last.page = 2
    /\ exam # Null
    /\ exam.pageCount = 2
    /\ Len(exam.questions) = 1
    /\ \A i \in 1..Len(exam.questions) : exam.questions[i].page = 1


\* the largest id of a non-empty exam
largestId(ex) == SetMax(idsOf(ex))

\* what handleAddQuestion does apart from the id of the new question: it acts
\* on an exam only, and the exam gets one question more, at the end, of the selected type, on the
\* highest page in use (page 1 in an empty exam) whatever the page count, with
\* an id no question has, and nothing else changed
addsOneAtTheEnd ==
    last'.op = "handleAddQuestion" =>
      LET n == Len(exam.questions)
          new == exam'.questions[n + 1]
      IN  /\ exam # Null
          /\ DOMAIN exam' = DOMAIN exam
          /\ \A k \in DOMAIN exam \ {"questions"} : exam'[k] = exam[k]
          /\ Len(exam'.questions) = n + 1
          /\ \A i \in 1..n : exam'.questions[i] = exam.questions[i]
          /\ new.id \notin idsOf(exam)
          /\ new.type = addQuestionType
          /\ new.page = (IF n = 0 THEN 1 ELSE highestUsedPage(exam))

\* C20 (as claimed): handleAddQuestion appends exactly one question and changes
\* no existing question; the id of the new question is 1 + the largest
\* existing id (1 for an empty exam); its type is addQuestionType; its page is
\* the highest page used by a question (1 for an empty exam).  Violated when
\* every id of the exam is below 0: the new id is 1.
C20_AsClaimed ==
    [][/\ addsOneAtTheEnd
       /\ last'.op = "handleAddQuestion" =>
            exam'.questions[Len(exam'.questions)].id =
              (IF Len(exam.questions) = 0 THEN 1 ELSE 1 + largestId(exam))]_vars

\* C20 (amended): as claimed, with the id of the new question being 1 + the
\* largest of the existing ids and 0, which is 1 + the largest existing id
\* when an existing id is 0 or more, and 1 for an empty exam or when every
\* existing id is negative; it is different from every id present.
C20_AddAppendsOne ==
    [][/\ addsOneAtTheEnd
       /\ last'.op = "handleAddQuestion" =>
            exam'.questions[Len(exam'.questions)].id =
              (IF Len(exam.questions) = 0 \/ largestId(exam) < 0 THEN 1
               ELSE 1 + largestId(exam))]_vars

\* a question has been added to an exam of two questions with the ids 1 and
\* 2, the first of them moved to page 2 before: it has id 3 and is on page 2
C20_Witness ==
    /\ last.op = "handleAddQuestion"
    /\ exam # Null
    /\ Len(exam.questions) = 3
    /\ exam.questions[1].page = 2
    /\ exam.questions[2].page = 1
    /\ exam.questions[2].id = 2
    /\ exam.questions[3].id = 3
    /\ exam.questions[3].page = 2
    /\ exam.questions[3].type = addQuestionType


\* the page a move gives a question that is on page p
movedPage(p, direction) ==
    IF direction = "next" THEN p + 1 ELSE IF p = 1 THEN 1 ELSE p - 1

\* C21: moveQuestionPage(id, 'next') raises the page of the question with that
\* id by exactly 1 and raises exam.pageCount to the new page if the new page
\* exceeds it; 'prev' lowers the page by 1 but never below 1.  Neither
\* direction lowers pageCount, and neither changes another question, another
\* field of the moved question or another field of the exam.
C21_MoveChangesPageOnly ==
    [][last'.op = "moveQuestionPage" =>
         /\ DOMAIN exam' = DOMAIN exam
         /\ \A k \in DOMAIN exam \ {"questions", "pageCount"} : exam'[k] = exam[k]
         /\ Len(exam'.questions) = Len(exam.questions)
         /\ \A i \in 1..Len(exam.questions) :
               IF exam.questions[i].id = last'.id
               THEN /\ sameBut(exam.questions[i], exam'.questions[i], {"page"})
                    /\ exam'.questions[i].page =
                         movedPage(exam.questions[i].page, last'.direction)
                    /\ exam'.pageCount =
                         (IF exam'.questions[i].page > exam.pageCount
                          THEN exam'.questions[i].page ELSE exam.pageCount)
               ELSE exam'.questions[i] = exam.questions[i]
         /\ exam'.pageCount >= exam.pageCount]_vars

\* the second of two questions has been moved to page 2 of an exam generated
\* with one page: the page count is 2 and the first question is on page 1
C21_Witness ==
    /\ last.op = "moveQuestionPage"
    /\ last.direction = "next"
    /\ exam # Null
    /\ Len(exam.questions) = 2
    /\ exam.questions[2].id = last.id
    /\ exam.questions[2].page = 2
    /\ exam.questions[1].page = 1
    /\ config.pageCount = 1
    /\ exam.pageCount = 2


\* what C22 says of a generation apart from the error after a success: the
\* start sets loading and clears error, exam and isEditing with the request
\* sent; the end clears loading on both outcomes; a success sets the exam to
\* the answered paper with every question on page 1 and the page count of the
\* configuration the request was sent with (1 when missing or 0); a failure
\* sets the error and leaves the exam null
lifecycleSteps ==
    /\ last'.op = "handleGenerate" /\ last'.outcome = "started" =>
         /\ loading' /\ error' = Null /\ exam' = Null /\ ~isEditing'
         /\ genReq = Null /\ genReq' # Null /\ genReq'.cfg = config
    /\ last'.op = "generateSettled" =>
         /\ loading /\ ~loading'
         /\ genReq # Null /\ genReq' = Null
    /\ last'.op = "generateSettled" /\ last'.outcome = "success" =>
         /\ exam' # Null
         /\ \E r \in Responses :
              /\ r.kind = "text"
              /\ exam'.header = r.paper.header
              /\ Len(exam'.questions) = Len(r.paper.questions)
              /\ \A i \in 1..Len(r.paper.questions) :
                    sameBut(exam'.questions[i], r.paper.questions[i], {"page"})
         /\ \A i \in 1..Len(exam'.questions) :
               "page" \in DOMAIN exam'.questions[i] /\ exam'.questions[i].page = 1
         /\ "pageCount" \in DOMAIN exam'
         /\ exam'.pageCount = (IF "pageCount" \in DOMAIN genReq.cfg
                                    /\ genReq.cfg.pageCount # 0
                               THEN genReq.cfg.pageCount ELSE 1)
    /\ last'.op = "generateSettled" /\ last'.outcome = "failure" =>
         /\ error' # Null
         /\ exam' = Null

\* loading is true exactly while the request is awaited
loadingWhilePending == loading <=> genReq # Null

\* C22 (as claimed): once handleGenerate passes its checks it sets loading and
\* clears error, exam and isEditing before the request is sent; when the
\* request settles loading is false on both outcomes, with the exam set to the
\* result and error null on success, and with error set and exam null on
\* failure; loading is never left true after the request has settled.
\* Violated: a file that is too large, picked while the request is pending,
\* sets the error, and the success leaves it set.
C22_AsClaimed ==
    /\ []loadingWhilePending
    /\ [][/\ lifecycleSteps
          /\ last'.op = "generateSettled" /\ last'.outcome = "success" =>
               error' = Null]_vars

\* C22 (amended): as claimed, except that a success does not touch the error:
\* it is null after a success unless a handler set it while the request was
\* pending (a file upload refused for its size).
C22_GenerationLifecycle ==
    /\ []loadingWhilePending
    /\ [][/\ lifecycleSteps
          /\ last'.op = "generateSettled" /\ last'.outcome = "success" =>
               error' = error]_vars

\* a generation from an uploaded file has succeeded after a second file was
\* refused for its size while the request was pending: the exam is shown and
\* the error of the upload is still set
C22_Witness ==
    /\ last.op = "generateSettled"
    /\ last.outcome = "success"
    /\ ~loading
    /\ exam # Null
    /\ Len(exam.questions) = 2
    /\ config.sourceType = "FILE"
    /\ "fileData" \in DOMAIN config
    /\ error = ERR_FILE_TOO_LARGE


\* C23 (as claimed): a regeneration started on a question of one exam never
\* modifies a later exam: when handleGenerate has replaced the exam while the
\* regeneration was pending, its completion, success or failure, changes no
\* question of the new exam, even when the new exam has a question with the
\* same id.  Violated: the updaters look the question up by id in the exam of
\* the time, and overwrite the new exam's question with that id.
C23_RegenerationLeavesLaterExam ==
    [][last'.op = "regenerateSettled" /\ "outlived" \in DOMAIN last'.request =>
         exam' = exam]_vars


\* C24 (as claimed): when a question is deleted while its regeneration is
\* pending, the completion of the regeneration, success or failure, neither
\* puts the question back nor changes a question of the exam, also when a
\* question was added between the deletion and the completion.  Violated:
\* handleAddQuestion gives the new question the id of the deleted one when
\* that id was the largest, and the completion then overwrites the new
\* question.
C24_DeletedStaysDeleted ==
    [][last'.op = "regenerateSettled" /\ "deleted" \in DOMAIN last'.request
         /\ "outlived" \notin DOMAIN last'.request =>
         exam' = exam]_vars


\* the ids whose regeneration is pending
pendingIds == {regens[n].qId : n \in 1..Len(regens)}

\* C25 (as claimed): the placeholder is never left behind: in every state in
\* which no regeneration of a question is pending, the text of that question
\* is not the placeholder put there by handleRegenerateQuestion; in particular
\* not after two overlapping regenerations of one question have both failed.
\* Violated: the second regeneration keeps the placeholder as the text to go
\* back to, and puts it back when it fails after the first.
C25_NoPlaceholderLeftBehind ==
    exam # Null =>
      \A i \in 1..Len(exam.questions) :
         exam.questions[i].id \notin pendingIds =>
           exam.questions[i].text # PLACEHOLDER


\* C26 (as claimed): the end of a file read changes only config.fileData and
\* config.content: sourceType, difficulty, pageCount and the question counts
\* are after the read what they were just before it, so a change made
\* between the choice of the file and the end of the read is kept.  Violated:
\* onloadend spreads the config of the render in which the file was chosen.
C26_ReadKeepsLaterEdits ==
    [][last'.op = "onloadend" =>
         \A k \in DOMAIN config \ {"fileData", "content"} :
            k \in DOMAIN config' /\ config'[k] = config[k]]_vars


\* the places of the sheets at which a question is shown: sheet, section,
\* place in the section
shownAt(v) ==
    { pl \in (1..Len(v)) \X (1..6) \X (1..Len(exam.questions)) :
        /\ pl[2] <= Len(v[pl[1]].sections)
        /\ pl[3] <= Len(v[pl[1]].sections[pl[2]].questions) }

\* the question shown at a place, and its position in exam.questions
questionAt(v, pl) == v[pl[1]].sections[pl[2]].questions[pl[3]]

\* render order as the claim gives it, on the positions of exam.questions: by
\* page, then by the fixed order of the types, then by position
before(ex, i1, i2) ==
    LET q1 == ex.questions[i1]
        q2 == ex.questions[i2]
    IN  \/ claimedPage(q1) < claimedPage(q2)
        \/ /\ claimedPage(q1) = claimedPage(q2)
           /\ typeRank(q1.type) < typeRank(q2.type)
        \/ /\ claimedPage(q1) = claimedPage(q2)
           /\ q1.type = q2.type
           /\ i1 < i2

\* the questions of an exam in that order
inClaimedOrder(ex) ==
    [j \in 1..Len(ex.questions) |->
       ex.questions[CHOOSE i \in 1..Len(ex.questions) :
                      Cardinality({i2 \in 1..Len(ex.questions) : before(ex, i2, i)})
                        = j - 1]]

\* C27: the question numbers shown on the sheets are exactly 1..N for an exam
\* of N questions, each used once; the numbering runs on across the pages and
\* the sections, in render order: the number j is shown beside the j-th
\* question by page ascending, then by the fixed type order, then by position
\* in exam.questions.  It holds after every add, delete and move.
C27_NumbersOneToN ==
    exam # Null =>
      LET N == Len(exam.questions)
          at == shownAt(view)
          num(pl) == questionNumber(view, pl[1], pl[2], pl[3])
      IN  /\ Cardinality(at) = N
          /\ {num(pl) : pl \in at} = 1..N
          /\ \A pl \in at : questionAt(view, pl) = inClaimedOrder(exam)[num(pl)]

\* after an addition page 1 holds the second question of exam.questions with
\* the number 1, and page 2 holds the new question with the number 2 before
\* the first question of exam.questions, a long-answer question, with the
\* number 3
C27_Witness ==
    /\ last.op = "handleAddQuestion"
    /\ exam # Null
    /\ Len(exam.questions) = 3
    /\ Len(view) = 2
    /\ Len(view[1].sections) = 1
    /\ Len(view[2].sections) = 2
    /\ questionAt(view, <<1, 1, 1>>) = exam.questions[2]
    /\ questionNumber(view, 1, 1, 1) = 1
    /\ questionAt(view, <<2, 1, 1>>) = exam.questions[3]
    /\ questionNumber(view, 2, 1, 1) = 2
    /\ questionAt(view, <<2, 2, 1>>) = exam.questions[1]
    /\ questionNumber(view, 2, 2, 1) = 3


\* C28 (as claimed): whenever isGeneratingPdf is false and the exam wrapper is
\* not in pdf-mode, no PDF export is in progress: while a processPdf call is
\* still running the flag is true and the mode is applied, for every
\* interleaving of exports started from the toolbar and from the preview
\* modal, the flag and the mode being reset when the last running export
\* ends.  Violated: the download button of the modal starts a second export
\* while one is running, and the finally block of the first to end resets the
\* flag and the mode.
C28_FlagWhileExporting ==
    exports # <<>> => isGeneratingPdf /\ pdfMode


\* the steps that are taken while a generation stays pending: the request in
\* flight is the one that was sent, and the exam stays null
pendingStaysAlone ==
    loading /\ loading' => genReq' = genReq /\ exam' = Null

\* C29: whenever loading is true the exam is null and exactly the one request
\* sent by the click is in flight, and there is none when loading is false; no
\* step taken while the generation is pending (a form edit, a regeneration
\* that completes for a question of the exam that was cleared, a click on the
\* disabled generate button) sets an exam or replaces the request.
C29_LoadingMeansNoExam ==
    /\ [](loading => exam = Null /\ genReq # Null)
    /\ [](~loading => genReq = Null)
    /\ [][pendingStaysAlone]_vars

\* a regeneration started on the previous exam completes while the next
\* generation is pending
C29_Witness ==
    /\ loading
    /\ exam = Null
    /\ last.op = "regenerateSettled"
    /\ Has(last.request, "outlived")


\* C30 (as claimed): every exam has a pageCount that is an integer of at least
\* 1.  Violated: a negative number typed in the page-count field is stored in
\* the config as it is, and generateExam copies it to the exam.
C30_PageCountAtLeastOne ==
    exam # Null => exam.pageCount \in Nat /\ exam.pageCount >= 1

====
